---- MODULE Spec2Model ----
(***************************************************************************)
(* File-system mailbox of tomaszsb/Code2027: a producer writes message     *)
(* files into an inbox root, Delivery Agents (mcp_client.py,               *)
(* mcp_client_gemini.py and the archived clients/mcp_client_gemini.py)     *)
(* claim them by rename into .processing, decode them and move them to     *)
(* .unread or .malformed, and a reader (get_new_messages) moves .unread    *)
(* files to .read.  Files are directory entries name -> content, rename    *)
(* is the POSIX rename (atomic, replaces an existing destination).         *)
(***************************************************************************)
EXTENDS Integers, Sequences, FiniteSets, TLC

\* Seconds of the wall clock the model runs through: 0..MaxClock.  Message
\* ids (and so file names) are the second-resolution timestamp.
MaxClock == 1

\* Number of transient filesystem errors (other than source-missing) the
\* environment may inject.
MaxFsErrors == 1

\* The most external interrupts delivered to the agents in one run.
MaxInterrupts == 1

\* The most messages the producers send in the two-sided scenario.
MaxProduced == 2

Absent == "<absent>"
\* A JSON value that is no string (a number), where the schema wants a string.
NotAString == "<number>"

Agents == {"a1", "a2"}
Readers == {"r1", "r2"}
Names == 0..MaxClock

\* The directories of one mailbox (INBOX_DIR is the inbox root).
INBOX_DIR == "root"
PROCESSING_DIR == "processing"
UNREAD_DIR == "unread"
READ_DIR == "read"
MALFORMED_DIR == "malformed"
Dirs == {INBOX_DIR, PROCESSING_DIR, UNREAD_DIR, READ_DIR, MALFORMED_DIR}

\* The three Delivery Agent scripts and the three .unread readers:
\*   mcp_client         src/mcp_client.py
\*   mcp_client_gemini  src/mcp_client_gemini.py
\*   archived           src/ai-bridge-ARCHIVED-20251015/clients/mcp_client_gemini.py
\*   ai_bridge          src/ai-bridge/mcp-servers/ai-bridge-mcp-server/server.py
\*   unified            src/ai-bridge-ARCHIVED-20251015/mcp-servers/unified-mcp-server/server.py
\*   check_claude       src/ai-bridge-ARCHIVED-20251015/clients/check_claude_messages.py
AgentVariants == {"mcp_client", "mcp_client_gemini", "archived"}
ReaderVariants == {"ai_bridge", "unified", "check_claude"}

\* Agent and reader of one mailbox: the JSON agents write .json files into
\* .unread, which only check_claude_messages.py reads; the archived client
\* serves the .txt readers as well.
Pipelines ==
    { <<"mcp_client", "check_claude">>, <<"mcp_client_gemini", "check_claude">>,
      <<"archived", "check_claude">>, <<"archived", "ai_bridge">>, <<"archived", "unified">> }

(***************************************************************************)
(* Message bodies.  A body is what the bytes of a file decode to: syntax   *)
(* says what the text is (not JSON at all, a JSON value that is no object, *)
(* a JSON object in the verbose or the compact key set, an email-style     *)
(* text block); id/from/to/t/ts/c are the values of message_id|id|ID,      *)
(* sender|From, recipient|to|To, type|t|Subject, timestamp and             *)
(* payload.content|c, Absent when the key (header) is missing.             *)
(***************************************************************************)
Body(syntax, id, from, to, t, ts, c) ==
    [syntax |-> syntax, id |-> id, from |-> from, to |-> to, t |-> t, ts |-> ts, c |-> c]

\* The content of a file that is open for writing and not yet complete (empty
\* or a prefix of the JSON/text): no decoder accepts it.
Partial == Body("partial", Absent, Absent, Absent, Absent, Absent, Absent)
Garbage == Body("garbage", Absent, Absent, Absent, Absent, Absent, Absent)
JsonList == Body("json_list", Absent, Absent, Absent, Absent, Absent, Absent)
Verbose(id, from, to, t) == Body("json_verbose", id, from, to, t, "2025-01-01T00:00:00Z", "hello")
Compact(id, t) == Body("json_compact", id, Absent, "gemini", t, Absent, "hello")
Email(id, from, to, t) == Body("email", id, from, to, t, Absent, "hello")

\* The bodies a producer may write: valid task/ack/error messages, a message
\* whose id is the empty string, one without sender, one of a user-defined
\* type, the compact shape of send_to_gemini, text blocks, and non-messages.
\* Each agent variant is fed the bodies on which its code paths differ.
JsonBodies ==
    { Verbose("m", "gemini", "claude", "task"),
      Verbose("m", "gemini", "claude", "ack"),
      Verbose("m", "gemini", "claude", "error"),
      Verbose("", "gemini", "claude", "task"),
      Verbose("m", Absent, "claude", "task"),
      JsonList,
      Garbage }

TextBodies ==
    { Email("m", "claude", "gemini", "task"),
      Email("", "claude", "gemini", "task"),
      Email("m", "claude", Absent, "task") }

\* What reaches an agent's inbox: the JSON agents glob *.json only, the
\* archived client takes both kinds.
GeminiBodies ==
    { Verbose("m", "claude", "gemini", "task"),
      Verbose("m", "claude", "gemini", "ack"),
      Verbose("m", "claude", "gemini", "note"),
      Compact("m", "task"),
      Garbage }

ArchivedBodies ==
    TextBodies \cup { Verbose("m", "gemini", "claude", "task"),
                      Verbose("m", Absent, "claude", "task"),
                      Compact("m", "task"), Garbage }

Bodies == JsonBodies \cup TextBodies \cup GeminiBodies \cup ArchivedBodies

BodiesFor(v) ==
    CASE v = "archived" -> ArchivedBodies
      [] v = "mcp_client_gemini" -> GeminiBodies
      [] OTHER -> JsonBodies

\* The senders' canonical extension: .txt for a text block, .json otherwise.
ExtOf(b) == IF b.syntax = "email" THEN "txt" ELSE "json"
File(b) == [ext |-> ExtOf(b), body |-> b]

IsJsonObject(b) == b.syntax \in {"json_verbose", "json_compact"}
\* json.load / json.loads succeeds
IsJson(b) == b.syntax \in {"json_verbose", "json_compact", "json_list"}

\* MESSAGE_SCHEMA: the message_id/timestamp/sender/... keys exist only in the
\* verbose key set; "format": "date-time" is not enforced by
\* jsonschema.validate without a format checker.
TypeEnum == {"task", "status_update", "query", "ack", "error"}
Participants == {"gemini", "claude"}

SchemaTypeOk(variant, t) ==
    IF variant = "mcp_client" THEN t \in TypeEnum ELSE t /= Absent

validate_message(variant, b) ==
    /\ IsJsonObject(b)
    /\ b.syntax = "json_verbose"
    /\ b.id \notin {Absent, NotAString}
    /\ b.ts /= Absent
    /\ b.from \in Participants
    /\ b.to \in Participants
    /\ SchemaTypeOk(variant, b.t)
    /\ b.c /= Absent

(***************************************************************************)
(* Decoders of the archived client and of the MCP servers.                 *)
(***************************************************************************)
NoMessage == Body("none", Absent, Absent, Absent, Absent, Absent, Absent)

\* parse_email_format: None unless the four headers are present (a header
\* with an empty value is present).
parse_email_format(b) ==
    IF b.syntax = "email" /\ b.id /= Absent /\ b.from /= Absent /\ b.to /= Absent /\ b.t /= Absent
    THEN b
    ELSE NoMessage

\* parse_json_format: the compact key set is returned as it is (no 'from'
\* key); the verbose one is normalised with 'unknown' / '' defaults.
Default(v, d) == IF v = Absent THEN d ELSE v
parse_json_format(b) ==
    IF ~IsJsonObject(b) THEN NoMessage
    ELSE IF b.syntax = "json_compact"
         THEN (IF b.id /= Absent /\ b.to /= Absent /\ b.t /= Absent /\ b.c /= Absent
               THEN b ELSE NoMessage)
         ELSE (IF b.id /= Absent
               THEN Body("json_verbose", b.id, Default(b.from, "unknown"),
                         Default(b.to, "unknown"), Default(b.t, "unknown"), b.ts,
                         Default(b.c, ""))
               ELSE NoMessage)

\* A decoder that goes by the extension alone.
parse_message_file_by_ext(ext, b) ==
    IF ext = "txt" THEN parse_email_format(b)
    ELSE IF ext = "json" THEN parse_json_format(b) ELSE NoMessage

\* parse_message_file of clients/mcp_client_gemini.py and of the ai-bridge
\* server: by extension first, then JSON, then text block.
parse_message_file(ext, b) ==
    LET byExt == IF ext = "txt" THEN parse_email_format(b)
                 ELSE IF ext = "json" THEN parse_json_format(b) ELSE NoMessage
    IN  IF byExt /= NoMessage THEN byExt
        ELSE IF parse_json_format(b) /= NoMessage THEN parse_json_format(b)
        ELSE parse_email_format(b)

\* parse_message_file of the unified server: .txt text blocks only.
parse_message_file_unified(ext, b) ==
    IF ext /= "txt" THEN NoMessage ELSE parse_email_format(b)

(***************************************************************************)
(* State.                                                                  *)
(***************************************************************************)
VARIABLES
    variant,    \* which Delivery Agent script runs (both agents run the same one)
    reader,     \* which get_new_messages reads .unread
    box,        \* the inbox mailbox: box[d] is directory d, a function name -> file
    outbox,     \* root of the agent's own outbox: name -> reply written by send_message
    clock,      \* the wall clock, in seconds
    writing,    \* the producer's file that is open for writing: {} or {[name, body]}
    lastSent,   \* the second of the producer's latest send (-1: none)
    pc,         \* per agent: its place in main / poll_inbox / process_message
    todo,       \* per agent: the files of poll_inbox's listing not yet visited
    cur,        \* per agent: filepath.name of the process_message call
    msg,        \* per agent: the decoded message
    rpc,        \* per reader: its place in get_new_messages
    rtodo,      \* per reader: the files of its listing not yet visited
    rcur,       \* per reader: the file of the current loop iteration
    errs,       \* transient filesystem errors injected so far
    acked,      \* history: the types of the messages send_ack was called for
    sends,      \* history: number of send_message calls that wrote their file
    returned,   \* history: per name, how many times get_new_messages returned it
    claims,     \* history: per name, how many renames into .processing succeeded
    lost,       \* per agent: the name in the "Polling error" line of its current sleep
    interrupts, \* external interrupts (KeyboardInterrupt) delivered so far
    mail,       \* two-sided scenario: mail[s] is the mailbox agent s polls
    spc,        \* per side: the agent's place in its loop
    stodo,      \* per side: the files of the listing not yet visited
    scur,       \* per side: filepath.name of the process_message call
    produced,   \* history: messages sent by the producers
    replies,    \* history: ack/error messages enqueued by the agents
    sent,       \* decoder scenario: the message handed to the encoder
    text,       \* decoder scenario: the text of the file, as its lines
    parsed,     \* decoder scenario: what parse_email_format returned
    jfile,      \* decoder scenario: the JSON value of the file
    jparsed,    \* decoder scenario: what parse_json_format returned
    dest,       \* decoder scenario: where process_message moved the file
    now,        \* checkpoint scenario: the time the next timestamp will carry
    cfiles,     \* checkpoint scenario: the outbox, name -> st_mtime
    ckpt,       \* checkpoint scenario: the checkpoint file (missing, empty, a value)
    cprev,      \* checkpoint scenario: the value the latest save replaced
    cpc,        \* per server process: its place in call_tool
    clast,      \* per server process: last_check of the current call
    cret,       \* history: per file, how many read calls returned it
    wnotifs,    \* watcher scenario: notification name -> does its message file exist
    wprocessed, \* watcher scenario: the processed set of watch_notifications
    wpc,        \* watcher scenario: the watcher's place in its loop
    wtodo,      \* watcher scenario: the notifications of the listing not yet visited
    wcur,       \* watcher scenario: the notification of the current iteration
    wresp,      \* watcher scenario: what get_gemini_response gave process_notification
    wout,       \* watcher scenario: gemini-outbox, notification -> response text written
    woutcome,   \* history: per notification, how the external tool ended
    wsaved,     \* watcher scenario: the names in .gemini-processed.json
    wattempts,  \* history: per notification, the calls of process_notification
    wstops,     \* history: interrupts delivered to the watcher
    fmsgs,      \* formatter scenario: the message list handed to format_messages
    fbudget,    \* formatter scenario: the character budget of the call site
    fout,       \* formatter scenario: what format_messages returned
    smode,      \* ordering scenario: which get_new_messages is called
    sdir,       \* ordering scenario: the files in the order glob yields them
    slast,      \* ordering scenario: last_check of the checkpoint-mode call
    sret,       \* ordering scenario: what get_new_messages returned
    pfile,      \* extension scenario: the file handed to parse_message_file
    pout,       \* extension scenario: what parse_message_file returned
    gcontent,   \* sender scenario: the content read from stdin, as its lines
    gnow,       \* sender scenario: the second of the call
    goutbox,    \* sender scenario: claude-outbox, name -> text of the file
    gresult,    \* sender scenario: how send_to_gemini ended
    cwfiles,    \* display scenario: the message files in gemini-outbox
    cwprocessed, \* display scenario: the processed set of the running watcher
    cwsaved,    \* display scenario: the names in .claude-processed.json
    cwpc,       \* display scenario: the watcher's place in watch_outbox
    cwtodo,     \* display scenario: the files of the listing not yet visited
    cwcur,      \* display scenario: the file of the current iteration
    cwshown,    \* history: per file, how many times display_message showed it
    cwstops     \* history: interrupts delivered to the watcher

\* The state that only the scenarios further down change.
twoVars == <<mail, spc, stodo, scur, produced, replies>>
parseVars == <<sent, text, parsed, jfile, jparsed, dest>>
ckptVars == <<now, cfiles, ckpt, cprev, cpc, clast, cret>>
watchVars == <<wnotifs, wprocessed, wpc, wtodo, wcur, wresp, wout, woutcome,
               wsaved, wattempts, wstops>>
fmtVars == <<fmsgs, fbudget, fout>>
sortVars == <<smode, sdir, slast, sret>>
decVars == <<pfile, pout>>
sendVars == <<gcontent, gnow, goutbox, gresult>>
cwVars == <<cwfiles, cwprocessed, cwsaved, cwpc, cwtodo, cwcur, cwshown, cwstops>>
lastVars == <<sortVars, decVars, sendVars, cwVars>>
laterVars == <<ckptVars, watchVars, fmtVars, lastVars>>
extVars == <<interrupts, twoVars, parseVars, laterVars>>

vars == <<variant, reader, box, outbox, clock, writing, lastSent, pc, todo, cur, msg,
          rpc, rtodo, rcur, errs, acked, sends, returned, claims, lost, extVars>>

EmptyDir == [x \in {} |-> File(Garbage)]

\* The two agents of the two-sided scenario: mcp_client.py serves Claude,
\* mcp_client_gemini.py serves Gemini; the outbox of each is the inbox root
\* of the other.
Sides == {"claude", "gemini"}
Other(s) == IF s = "claude" THEN "gemini" ELSE "claude"
VariantOf(s) == IF s = "claude" THEN "mcp_client" ELSE "mcp_client_gemini"

TwoIdle ==
    /\ mail = [s \in Sides |-> [d \in Dirs |-> EmptyDir]]
    /\ spc = [s \in Sides |-> "sleep"]
    /\ stodo = [s \in Sides |-> {}]
    /\ scur = [s \in Sides |-> 0]
    /\ produced = 0
    /\ replies = 0

\* No decoder call yet, none returned.
NotYet == [ok |-> FALSE, pending |-> TRUE]
ParseIdle ==
    /\ sent = NotYet
    /\ text = << >>
    /\ parsed = NotYet
    /\ jfile = NoMessage
    /\ jparsed = NoMessage
    /\ dest = "none"

\* The MCP server processes sharing one checkpoint file, and the names of
\* the files a sender writes into the outbox they scan.
Servers == {"s1", "s2"}
MaxFiles == 2
MaxNow == 5
FileNames == 0..(MaxFiles - 1)
Checkpoint(state, t) == [state |-> state, t |-> t]

\* No checkpoint file yet, no outbox file, no call under way.
CkptIdle ==
    /\ now = 1
    /\ cfiles = << >>
    /\ ckpt = Checkpoint("missing", 0)
    /\ cprev = 0
    /\ cpc = [s \in Servers |-> "idle"]
    /\ clast = [s \in Servers |-> 0]
    /\ cret = [f \in FileNames |-> 0]

\* No notification yet, the watcher about to list the directory.
NoResponse == [raised |-> FALSE, text |-> "none"]
WatchIdle ==
    /\ wnotifs = << >>
    /\ wprocessed = {}
    /\ wpc = "list"
    /\ wtodo = {}
    /\ wcur = 0
    /\ wresp = NoResponse
    /\ wout = << >>
    /\ woutcome = << >>
    /\ wsaved = {}
    /\ wattempts = << >>
    /\ wstops = 0

\* format_messages not called.
FmtIdle ==
    /\ fmsgs = << >>
    /\ fbudget = 0
    /\ fout = NotYet

\* get_new_messages of the ordering scenario not called.
SortIdle ==
    /\ smode = "none"
    /\ sdir = << >>
    /\ slast = 0
    /\ sret = NotYet

\* parse_message_file of the extension scenario not called.
DecIdle ==
    /\ pfile = File(Garbage)
    /\ pout = NotYet

\* send_to_gemini not called, claude-outbox empty.
SendIdle ==
    /\ gcontent = << >>
    /\ gnow = 0
    /\ goutbox = << >>
    /\ gresult = "none"

\* No message file, no .claude-processed.json, the watcher not started.
CwIdle ==
    /\ cwfiles = {}
    /\ cwprocessed = {}
    /\ cwsaved = {}
    /\ cwpc = "load"
    /\ cwtodo = {}
    /\ cwcur = 0
    /\ cwshown = << >>
    /\ cwstops = 0

LastIdle == SortIdle /\ DecIdle /\ SendIdle /\ CwIdle

ExtInit ==
    /\ interrupts = 0
    /\ TwoIdle
    /\ ParseIdle
    /\ CkptIdle
    /\ WatchIdle
    /\ FmtIdle
    /\ LastIdle

agentVars == <<pc, todo, cur, msg>>
readerVars == <<rpc, rtodo, rcur>>
producerVars == <<writing, lastSent>>

Init ==
    /\ \E p \in Pipelines : variant = p[1] /\ reader = p[2]
    /\ box = [d \in Dirs |-> EmptyDir]
    /\ outbox = [x \in {} |-> NoMessage]
    /\ clock = 0
    /\ writing = {}
    /\ lastSent = -1
    /\ pc = [a \in Agents |-> "sleep"]
    /\ todo = [a \in Agents |-> {}]
    /\ cur = [a \in Agents |-> 0]
    /\ msg = [a \in Agents |-> NoMessage]
    /\ rpc = [r \in Readers |-> "idle"]
    /\ rtodo = [r \in Readers |-> {}]
    /\ rcur = [r \in Readers |-> 0]
    /\ errs = 0
    /\ acked = {}
    /\ sends = 0
    /\ returned = [f \in Names |-> 0]
    /\ claims = [f \in Names |-> 0]
    /\ lost = [a \in Agents |-> {}]
    /\ ExtInit

(***************************************************************************)
(* The filesystem.                                                         *)
(***************************************************************************)
Has(d, f) == f \in DOMAIN box[d]
Put(dir, f, file) == [x \in (DOMAIN dir) \cup {f} |-> IF x = f THEN file ELSE dir[x]]
Del(dir, f) == [x \in (DOMAIN dir) \ {f} |-> dir[x]]

\* os.rename(src/f, dst/f) when src/f exists: one atomic step that removes the
\* source entry and installs it at the destination, replacing what is there.
RenameCopy(b, src, dst, f) ==
    [b EXCEPT ![dst] = Put(b[dst], f, b[src][f])]

Rename(b, src, dst, f) ==
    [b EXCEPT ![src] = Del(b[src], f), ![dst] = Put(b[dst], f, b[src][f])]

\* A filesystem call other than one failing with source-missing may fail
\* transiently while the error budget lasts.
CanFail == errs < MaxFsErrors

(***************************************************************************)
(* Time and the producer (send_to_gemini / send_to_claude / send_message   *)
(* of the other side): the file name is the id, the id is the second.      *)
(***************************************************************************)
Tick ==
    /\ clock < MaxClock
    /\ clock' = clock + 1
    /\ UNCHANGED <<variant, reader, box, outbox, writing, lastSent, agentVars, readerVars,
                   errs, acked, sends, returned, claims, lost, extVars>>

\* open(filepath, 'w'): the file is created (or truncated) in the inbox root
\* and is visible at once, before json.dump / f.write has written it.
send_open(body) ==
    /\ writing = {}
    /\ box' = [box EXCEPT ![INBOX_DIR] = Put(box[INBOX_DIR], clock, [ext |-> ExtOf(body), body |-> Partial])]
    /\ writing' = {[name |-> clock, body |-> body]}
    /\ lastSent' = clock
    /\ UNCHANGED <<variant, reader, outbox, clock, agentVars, readerVars,
                   errs, acked, sends, returned, claims, lost, extVars>>

\* json.dump / f.write and the close: the content goes to the open file,
\* wherever a rename has taken it meanwhile.
send_write ==
    /\ writing /= {}
    /\ \E w \in writing :
         box' = [d \in Dirs |->
                   IF w.name \in DOMAIN box[d] /\ box[d][w.name].body = Partial
                   THEN [box[d] EXCEPT ![w.name] = [ext |-> ExtOf(w.body), body |-> w.body]]
                   ELSE box[d]]
    /\ writing' = {}
    /\ UNCHANGED <<variant, reader, outbox, clock, lastSent, agentVars, readerVars,
                   errs, acked, sends, returned, claims, lost, extVars>>

\* The environment of the lifecycle claims: single writer per file, i.e. the
\* producer starts at most one send per second, so no two sends share a name.
Enqueue ==
    /\ lastSent < clock
    /\ \E body \in BodiesFor(variant) : send_open(body)

(***************************************************************************)
(* The Delivery Agent: main -> poll_inbox -> process_message.              *)
(*   sleep        time.sleep(5) between two poll cycles                    *)
(*   scan         in poll_inbox's for loop, before the next candidate      *)
(*   claimed      the rename into .processing is done, the file not read   *)
(*   invalid      decoded, found invalid, before the rename to .malformed  *)
(*   reply_error  renamed to .malformed, before send_error                 *)
(*   valid        decoded and valid, before the ack decision               *)
(*   deliver      before the rename to .unread                             *)
(***************************************************************************)
Globbed(v, ext) == IF v = "archived" THEN ext \in {"json", "txt"} ELSE ext = "json"

\* A listing that descends into the subdirectories (rglob).
rglob(v) ==
    {f \in Names : \E d \in Dirs : f \in DOMAIN box[d] /\ Globbed(v, box[d][f].ext)}

\* INBOX_DIR.glob("*.json") (and "*.txt"): the entries of the inbox root
\* itself; .processing, .unread, .read and .malformed are directories.
glob(v) ==
    {f \in DOMAIN box[INBOX_DIR] : Globbed(v, box[INBOX_DIR][f].ext)}

\* poll_inbox: the listing.  glob yields the files in directory order, which
\* is no particular order: the candidates are visited in any order.
Poll(a, from) ==
    /\ pc[a] = from
    /\ todo' = [todo EXCEPT ![a] = glob(variant)]
    /\ pc' = [pc EXCEPT ![a] = "scan"]
    /\ lost' = [lost EXCEPT ![a] = {}]
    /\ UNCHANGED <<variant, reader, box, outbox, clock, producerVars, cur, msg, readerVars,
                   errs, acked, sends, returned, claims, extVars>>

poll_inbox(a) == Poll(a, "sleep")

\* poll_inbox returns, main sleeps.
end_cycle(a) ==
    /\ pc[a] = "scan"
    /\ todo[a] = {}
    /\ pc' = [pc EXCEPT ![a] = "sleep"]
    /\ UNCHANGED <<variant, reader, box, outbox, clock, producerVars, todo, cur, msg, readerVars,
                   errs, acked, sends, returned, claims, lost, extVars>>

AbortFatal(a) ==
    /\ pc' = [pc EXCEPT ![a] = "stopped"]
    /\ todo' = [todo EXCEPT ![a] = {}]

\* An exception that leaves process_message through its first statement (the
\* rename is outside the try) also leaves poll_inbox's loop: main logs
\* "Polling error" and sleeps; the rest of the listing is dropped.
Abort(a) ==
    /\ pc' = [pc EXCEPT ![a] = "sleep"]
    /\ todo' = [todo EXCEPT ![a] = {}]

\* The destinations process_message computes: PROCESSING_DIR / filepath.name,
\* MALFORMED_DIR / processing_path.name, UNREAD_DIR / processing_path.name.
processing_path == PROCESSING_DIR
malformed_path == MALFORMED_DIR
unread_path_read == READ_DIR

unread_path == UNREAD_DIR

\* process_message, line 1: filepath.rename(processing_path).
claim_ok(a, f) ==
    /\ Has(INBOX_DIR, f)
    /\ box' = Rename(box, INBOX_DIR, processing_path, f)
    /\ pc' = [pc EXCEPT ![a] = "claimed"]
    /\ todo' = [todo EXCEPT ![a] = @ \ {f}]
    /\ cur' = [cur EXCEPT ![a] = f]
    /\ claims' = [claims EXCEPT ![f] = @ + 1]
    /\ UNCHANGED <<errs, lost>>

claim_missing(a, f) ==
    /\ ~Has(INBOX_DIR, f)
    /\ Abort(a)
    /\ lost' = [lost EXCEPT ![a] = {f}]
    /\ UNCHANGED <<box, cur, claims, errs>>

claim_oserror(a, f) ==
    /\ Has(INBOX_DIR, f)
    /\ CanFail
    /\ errs' = errs + 1
    /\ Abort(a)
    /\ UNCHANGED <<box, cur, claims, lost>>

claim(a) ==
    /\ pc[a] = "scan"
    /\ \E f \in todo[a] : claim_ok(a, f) \/ claim_missing(a, f) \/ claim_oserror(a, f)
    /\ UNCHANGED <<variant, reader, outbox, clock, producerVars, msg, readerVars,
                   acked, sends, returned, extVars>>

\* The except clause of process_message: the error is logged, the function
\* returns and the for loop goes on; the file stays where it is.
\* process_message is left: its locals are gone.
Return(a) ==
    /\ pc' = [pc EXCEPT ![a] = "scan"]
    /\ cur' = [cur EXCEPT ![a] = 0]
    /\ msg' = [msg EXCEPT ![a] = NoMessage]

Caught(a) == Return(a)

\* The valid path reads these keys for its log lines before anything else
\* (message['t'], message['from'], message['id'], message['c']); after
\* validate_message they are all there, after parse_message_file not always.
LoggedKeysPresent(m) ==
    m.t /= Absent /\ m.from /= Absent /\ m.id /= Absent /\ m.c /= Absent

\* open + json.load + validate_message (mcp_client*), parse_message_file
\* (archived).
decode(a) ==
    /\ pc[a] = "claimed"
    /\ IF ~Has(PROCESSING_DIR, cur[a])
       THEN IF variant = "archived"
            THEN pc' = [pc EXCEPT ![a] = "invalid"] /\ UNCHANGED <<cur, msg>>
            ELSE Caught(a)
       ELSE LET file == box[PROCESSING_DIR][cur[a]]
                b == file.body
            IN  IF variant = "archived"
                THEN LET m == parse_message_file(file.ext, b)
                     IN  IF m = NoMessage
                         THEN pc' = [pc EXCEPT ![a] = "invalid"] /\ UNCHANGED <<cur, msg>>
                         ELSE IF LoggedKeysPresent(m)
                              THEN /\ pc' = [pc EXCEPT ![a] = "deliver"]
                                   /\ msg' = [msg EXCEPT ![a] = m]
                                   /\ UNCHANGED cur
                              ELSE Caught(a)
                ELSE IF ~IsJson(b)
                     THEN Caught(a)
                     ELSE /\ msg' = [msg EXCEPT ![a] = b]
                          /\ pc' = [pc EXCEPT ![a] =
                                      IF validate_message(variant, b) THEN "valid" ELSE "invalid"]
                          /\ UNCHANGED cur
    /\ UNCHANGED <<variant, reader, box, outbox, clock, producerVars, todo, readerVars,
                   errs, acked, sends, returned, claims, lost, extVars>>

\* processing_path.rename(malformed_path); the archived client returns after
\* it, mcp_client* go on to send_error.
move_malformed(a) ==
    /\ pc[a] = "invalid"
    /\ \/ /\ Has(PROCESSING_DIR, cur[a])
          /\ box' = Rename(box, processing_path, malformed_path, cur[a])
          /\ IF variant = "archived"
             THEN Return(a)
             ELSE pc' = [pc EXCEPT ![a] = "reply_error"] /\ UNCHANGED <<cur, msg>>
          /\ UNCHANGED errs
       \/ /\ ~Has(PROCESSING_DIR, cur[a])
          /\ Caught(a)
          /\ UNCHANGED <<box, errs>>
       \/ /\ Has(PROCESSING_DIR, cur[a])
          /\ CanFail
          /\ errs' = errs + 1
          /\ Caught(a)
          /\ UNCHANGED box
    /\ UNCHANGED <<variant, reader, outbox, clock, producerVars, todo, readerVars,
                   acked, sends, returned, claims, lost, extVars>>

\* create_message + send_message: the reply is written to
\* OUTBOX_DIR/<sender>-<timestamp to the second>.json with open(..., 'w').
Reply(type, orig) == [type |-> type, orig |-> orig]
send_message(reply) ==
    /\ outbox' = Put(outbox, clock, reply)
    /\ sends' = sends + 1

\* create_message: "if original_message_id:" keeps the id in the payload
\* unless it is falsy (the empty string).
OriginalId(id) == IF id = "" THEN Absent ELSE id

\* message.get('message_id', 'unknown'): only a dict has .get; the compact
\* key set has no message_id.
ErrorOrigin(m) ==
    IF m.syntax = "json_verbose" /\ m.id /= Absent
    THEN OriginalId(m.id)
    ELSE "unknown"

send_error(a) ==
    /\ pc[a] = "reply_error"
    /\ \/ /\ IsJsonObject(msg[a])
          /\ send_message(Reply("error", ErrorOrigin(msg[a])))
          /\ Return(a)
          /\ UNCHANGED errs
       \/ /\ ~IsJsonObject(msg[a])
          /\ Caught(a)
          /\ UNCHANGED <<outbox, sends, errs>>
       \/ /\ IsJsonObject(msg[a])
          /\ CanFail
          /\ errs' = errs + 1
          /\ Caught(a)
          /\ UNCHANGED <<outbox, sends>>
    /\ UNCHANGED <<variant, reader, box, clock, producerVars, todo, readerVars,
                   acked, returned, claims, lost, extVars>>

\* "don't ACK an ACK": if message['type'] not in ['ack', 'error'].
AckUnlessAck(m) == m.t /= "ack"

AckWanted(m) == m.t \notin {"ack", "error"}

send_ack(a) ==
    /\ pc[a] = "valid"
    /\ \/ /\ AckWanted(msg[a])
          /\ send_message(Reply("ack", OriginalId(msg[a].id)))
          /\ acked' = acked \cup {msg[a].t}
          /\ pc' = [pc EXCEPT ![a] = "deliver"]
          /\ UNCHANGED <<cur, msg, errs>>
       \/ /\ ~AckWanted(msg[a])
          /\ pc' = [pc EXCEPT ![a] = "deliver"]
          /\ UNCHANGED <<cur, msg, outbox, sends, acked, errs>>
       \/ /\ AckWanted(msg[a])
          /\ CanFail
          /\ errs' = errs + 1
          /\ Caught(a)
          /\ UNCHANGED <<outbox, sends, acked>>
    /\ UNCHANGED <<variant, reader, box, clock, producerVars, todo, readerVars,
                   returned, claims, lost, extVars>>

\* processing_path.rename(unread_path).
move_unread(a) ==
    /\ pc[a] = "deliver"
    /\ Return(a)
    /\ \/ /\ Has(PROCESSING_DIR, cur[a])
          /\ box' = Rename(box, processing_path, unread_path, cur[a])
          /\ UNCHANGED errs
       \/ /\ ~Has(PROCESSING_DIR, cur[a])
          /\ UNCHANGED <<box, errs>>
       \/ /\ Has(PROCESSING_DIR, cur[a])
          /\ CanFail
          /\ errs' = errs + 1
          /\ UNCHANGED box
    /\ UNCHANGED <<variant, reader, outbox, clock, producerVars, todo, readerVars,
                   acked, sends, returned, claims, lost, extVars>>

process_message(a) ==
    claim(a) \/ decode(a) \/ move_malformed(a) \/ send_error(a) \/ send_ack(a) \/ move_unread(a)

(***************************************************************************)
(* The reader: get_new_messages over .unread, one call at a time per       *)
(* reader process.                                                         *)
(*   idle   no call running                                                *)
(*   scan   in the for loop, before the next file                          *)
(*   move   the message is appended to new_messages, before shutil.move    *)
(***************************************************************************)
ReaderGlob(rv, ext) == IF rv = "check_claude" THEN ext = "json" ELSE ext = "txt"

\* What the loop body appends for a file, NoMessage when it skips the file
\* (parse_message_file returned None, or json.load raised).
ReaderDecode(rv, file) ==
    IF rv = "check_claude" THEN (IF IsJson(file.body) THEN file.body ELSE NoMessage)
    ELSE IF rv = "unified" THEN parse_message_file_unified(file.ext, file.body)
    ELSE parse_message_file(file.ext, file.body)

get_new_messages_list(r) ==
    /\ rpc[r] = "idle"
    /\ rtodo' = [rtodo EXCEPT ![r] = {f \in DOMAIN box[UNREAD_DIR] : ReaderGlob(reader, box[UNREAD_DIR][f].ext)}]
    /\ rpc' = [rpc EXCEPT ![r] = "scan"]
    /\ UNCHANGED <<variant, reader, box, outbox, clock, producerVars, agentVars, rcur,
                   errs, acked, sends, returned, claims, lost, extVars>>

\* parse the file and new_messages.append(...): from here on the call
\* returns the message, whatever happens to the move.
get_new_messages_append(r) ==
    /\ rpc[r] = "scan"
    /\ \E f \in rtodo[r] :
         /\ rtodo' = [rtodo EXCEPT ![r] = @ \ {f}]
         /\ IF Has(UNREAD_DIR, f) /\ ReaderDecode(reader, box[UNREAD_DIR][f]) /= NoMessage
            THEN /\ returned' = [returned EXCEPT ![f] = @ + 1]
                 /\ rpc' = [rpc EXCEPT ![r] = "move"]
                 /\ rcur' = [rcur EXCEPT ![r] = f]
            ELSE UNCHANGED <<returned, rpc, rcur>>
    /\ UNCHANGED <<variant, reader, box, outbox, clock, producerVars, agentVars,
                   errs, acked, sends, claims, lost, extVars>>

\* shutil.move(file, read_dir / file.name): a rename within one volume; an
\* exception is printed and the loop goes on.
get_new_messages_move(r) ==
    /\ rpc[r] = "move"
    /\ rpc' = [rpc EXCEPT ![r] = "scan"]
    /\ rcur' = [rcur EXCEPT ![r] = 0]
    /\ \/ /\ Has(UNREAD_DIR, rcur[r])
          /\ box' = Rename(box, UNREAD_DIR, READ_DIR, rcur[r])
          /\ UNCHANGED errs
       \/ /\ ~Has(UNREAD_DIR, rcur[r])
          /\ UNCHANGED <<box, errs>>
       \/ /\ Has(UNREAD_DIR, rcur[r])
          /\ CanFail
          /\ errs' = errs + 1
          /\ UNCHANGED box
    /\ UNCHANGED <<variant, reader, outbox, clock, producerVars, agentVars, rtodo,
                   acked, sends, returned, claims, lost, extVars>>

get_new_messages_return(r) ==
    /\ rpc[r] = "scan"
    /\ rtodo[r] = {}
    /\ rpc' = [rpc EXCEPT ![r] = "idle"]
    /\ UNCHANGED <<variant, reader, box, outbox, clock, producerVars, agentVars, rtodo, rcur,
                   errs, acked, sends, returned, claims, lost, extVars>>

get_new_messages(r) ==
    \/ get_new_messages_list(r)
    \/ get_new_messages_append(r)
    \/ get_new_messages_move(r)
    \/ get_new_messages_return(r)

(***************************************************************************)
(* The mailbox under its stated environment (one writer per file).         *)
(***************************************************************************)
Next ==
    \/ Tick
    \/ Enqueue
    \/ send_write
    \/ \E a \in Agents : poll_inbox(a) \/ process_message(a) \/ end_cycle(a)
    \/ get_new_messages("r1")

Spec == Init /\ [][Next]_vars

(***************************************************************************)
(* One poll cycle per agent over an inbox that holds one complete file, no *)
(* producer, no reader, no filesystem error.                               *)
(***************************************************************************)
\* A well-formed message of a user-defined type, for the agent whose
\* schema has a type enum (GeminiBodies has it for the other).
UserTyped(v) ==
    IF v = "mcp_client" THEN {Verbose("m", "gemini", "claude", "note")} ELSE {}

InitOnePoll ==
    /\ \E p \in Pipelines : variant = p[1] /\ reader = p[2]
    /\ \E b \in BodiesFor(variant) \cup UserTyped(variant) :
         box = [d \in Dirs |-> IF d = INBOX_DIR THEN Put(EmptyDir, 0, File(b)) ELSE EmptyDir]
    /\ outbox = [x \in {} |-> NoMessage]
    /\ clock = 0
    /\ writing = {}
    /\ lastSent = 0
    /\ pc = [a \in Agents |-> "start"]
    /\ todo = [a \in Agents |-> {}]
    /\ cur = [a \in Agents |-> 0]
    /\ msg = [a \in Agents |-> NoMessage]
    /\ rpc = [r \in Readers |-> "idle"]
    /\ rtodo = [r \in Readers |-> {}]
    /\ rcur = [r \in Readers |-> 0]
    /\ errs = MaxFsErrors
    /\ acked = {}
    /\ sends = 0
    /\ returned = [f \in Names |-> 0]
    /\ claims = [f \in Names |-> 0]
    /\ lost = [a \in Agents |-> {}]
    /\ ExtInit

first_poll(a) == Poll(a, "start")

NextOnePoll ==
    \E a \in Agents : first_poll(a) \/ process_message(a) \/ end_cycle(a)

SpecOnePoll == InitOnePoll /\ [][NextOnePoll]_vars

BothCyclesComplete == \A a \in Agents : pc[a] = "sleep"

(***************************************************************************)
(* The running system over one complete file: the agents poll again and    *)
(* again (main's while True), the reader is called again and again, and    *)
(* filesystem calls fail while the error budget lasts.  Every process that *)
(* can take a step eventually takes one.                                   *)
(***************************************************************************)
\* The contents an agent resolves when no call fails: process_message gets
\* them to .unread or to .malformed.
Settles(v, b) ==
    IF v = "archived"
    THEN LET m == parse_message_file(ExtOf(b), b)
         IN  m = NoMessage \/ LoggedKeysPresent(m)
    ELSE IsJson(b)

InitRetry ==
    /\ \E p \in Pipelines : variant = p[1] /\ reader = p[2]
    /\ \E b \in {x \in BodiesFor(variant) : Settles(variant, x)} :
         box = [d \in Dirs |-> IF d = INBOX_DIR THEN Put(EmptyDir, 0, File(b)) ELSE EmptyDir]
    /\ outbox = [x \in {} |-> NoMessage]
    /\ clock = 0
    /\ writing = {}
    /\ lastSent = 0
    /\ pc = [a \in Agents |-> "sleep"]
    /\ todo = [a \in Agents |-> {}]
    /\ cur = [a \in Agents |-> 0]
    /\ msg = [a \in Agents |-> NoMessage]
    /\ rpc = [r \in Readers |-> "idle"]
    /\ rtodo = [r \in Readers |-> {}]
    /\ rcur = [r \in Readers |-> 0]
    /\ errs = 0
    /\ acked = {}
    /\ sends = 0
    /\ returned = [f \in Names |-> 0]
    /\ claims = [f \in Names |-> 0]
    /\ lost = [a \in Agents |-> {}]
    /\ ExtInit

main(a) == poll_inbox(a) \/ process_message(a) \/ end_cycle(a)

NextRetry ==
    \/ \E a \in Agents : main(a)
    \/ get_new_messages("r1")

SpecRetry ==
    /\ InitRetry
    /\ [][NextRetry]_vars
    /\ \A a \in Agents : WF_vars(main(a))
    /\ WF_vars(get_new_messages("r1"))

(***************************************************************************)
(* The running system with interrupts: Ctrl-C reaches an agent at any      *)
(* point of its loop, the operator starts the agent again.                 *)
(***************************************************************************)
\* KeyboardInterrupt is no Exception: process_message's except clause lets
\* it pass, main's "except KeyboardInterrupt" logs and breaks.  The locals
\* of the call in progress are gone, the directories are as they were.
KeyboardInterrupt(a) ==
    /\ pc[a] /= "stopped"
    /\ interrupts < MaxInterrupts
    /\ interrupts' = interrupts + 1
    /\ pc' = [pc EXCEPT ![a] = "stopped"]
    /\ todo' = [todo EXCEPT ![a] = {}]
    /\ cur' = [cur EXCEPT ![a] = 0]
    /\ msg' = [msg EXCEPT ![a] = NoMessage]
    /\ UNCHANGED <<variant, reader, box, outbox, clock, producerVars, readerVars,
                   errs, acked, sends, returned, claims, lost, twoVars, parseVars, laterVars>>

\* The script is started again: module start, then main's loop.
restart(a) ==
    /\ pc[a] = "stopped"
    /\ pc' = [pc EXCEPT ![a] = "sleep"]
    /\ lost' = [lost EXCEPT ![a] = {}]
    /\ UNCHANGED <<variant, reader, box, outbox, clock, producerVars, todo, cur, msg,
                   readerVars, errs, acked, sends, returned, claims, extVars>>

NextLoop ==
    \E a \in Agents : main(a) \/ KeyboardInterrupt(a) \/ restart(a)

\* Any content, filesystem calls fail while the error budget lasts.
InitLoop ==
    /\ \E p \in Pipelines : variant = p[1] /\ reader = p[2]
    /\ \E b \in BodiesFor(variant) :
         box = [d \in Dirs |-> IF d = INBOX_DIR THEN Put(EmptyDir, 0, File(b)) ELSE EmptyDir]
    /\ outbox = [x \in {} |-> NoMessage]
    /\ clock = 0
    /\ writing = {}
    /\ lastSent = 0
    /\ pc = [a \in Agents |-> "sleep"]
    /\ todo = [a \in Agents |-> {}]
    /\ cur = [a \in Agents |-> 0]
    /\ msg = [a \in Agents |-> NoMessage]
    /\ rpc = [r \in Readers |-> "idle"]
    /\ rtodo = [r \in Readers |-> {}]
    /\ rcur = [r \in Readers |-> 0]
    /\ errs = 0
    /\ acked = {}
    /\ sends = 0
    /\ returned = [f \in Names |-> 0]
    /\ claims = [f \in Names |-> 0]
    /\ lost = [a \in Agents |-> {}]
    /\ ExtInit

SpecLoop ==
    /\ InitLoop
    /\ [][NextLoop]_vars
    /\ \A a \in Agents : WF_vars(main(a)) /\ WF_vars(restart(a))

\* Contents the agent resolves, and no filesystem call fails: what is left
\* to go wrong is the interrupt.
InitInterrupt ==
    /\ \E p \in Pipelines : variant = p[1] /\ reader = p[2]
    /\ \E b \in {x \in BodiesFor(variant) : Settles(variant, x)} :
         box = [d \in Dirs |-> IF d = INBOX_DIR THEN Put(EmptyDir, 0, File(b)) ELSE EmptyDir]
    /\ outbox = [x \in {} |-> NoMessage]
    /\ clock = 0
    /\ writing = {}
    /\ lastSent = 0
    /\ pc = [a \in Agents |-> "sleep"]
    /\ todo = [a \in Agents |-> {}]
    /\ cur = [a \in Agents |-> 0]
    /\ msg = [a \in Agents |-> NoMessage]
    /\ rpc = [r \in Readers |-> "idle"]
    /\ rtodo = [r \in Readers |-> {}]
    /\ rcur = [r \in Readers |-> 0]
    /\ errs = MaxFsErrors
    /\ acked = {}
    /\ sends = 0
    /\ returned = [f \in Names |-> 0]
    /\ claims = [f \in Names |-> 0]
    /\ lost = [a \in Agents |-> {}]
    /\ ExtInit

SpecInterrupt ==
    /\ InitInterrupt
    /\ [][NextLoop]_vars
    /\ \A a \in Agents : WF_vars(main(a)) /\ WF_vars(restart(a))

(***************************************************************************)
(* Both sides running: mcp_client.py polls gemini-outbox and writes to     *)
(* claude-outbox, mcp_client_gemini.py polls claude-outbox and writes to   *)
(* gemini-outbox; the send scripts put finitely many messages into either  *)
(* inbox.  No filesystem error, no interrupt.                              *)
(***************************************************************************)
baseVars == <<variant, reader, box, outbox, writing, lastSent, pc, todo, cur, msg,
              rpc, rtodo, rcur, errs, acked, sends, returned, claims, lost, interrupts,
              laterVars>>

\* A message file with its payload.original_message_id.
Letter(b, orig) == [ext |-> "json", body |-> b, orig |-> orig]

\* create_message of side s: a verbose message from s to the other side, the
\* original id in the payload unless it is falsy.
create_message(s, type, orig) ==
    Letter(Verbose("m", s, Other(s), type), IF orig = "" THEN Absent ELSE orig)

\* validate_message on the whole file: payload.original_message_id, when
\* there, must be a string.
ValidLetter(s, file) ==
    validate_message(VariantOf(s), file.body) /\ file.orig /= NotAString

\* What the senders for side s put into its inbox: a valid task, a message
\* without sender, one whose message_id is a number, and garbage.
ProducedFor(s) ==
    { Letter(Verbose("m", Other(s), s, "task"), Absent),
      Letter(Verbose("m", Absent, s, "task"), Absent),
      Letter(Verbose(NotAString, Other(s), s, "task"), Absent),
      Letter(Garbage, Absent) }

\* The single-inbox processes at rest over an empty mailbox.
BaseIdle ==
    /\ variant = "mcp_client"
    /\ reader = "check_claude"
    /\ box = [d \in Dirs |-> EmptyDir]
    /\ outbox = [x \in {} |-> NoMessage]
    /\ clock = 0
    /\ writing = {}
    /\ lastSent = -1
    /\ pc = [a \in Agents |-> "sleep"]
    /\ todo = [a \in Agents |-> {}]
    /\ cur = [a \in Agents |-> 0]
    /\ msg = [a \in Agents |-> NoMessage]
    /\ rpc = [r \in Readers |-> "idle"]
    /\ rtodo = [r \in Readers |-> {}]
    /\ rcur = [r \in Readers |-> 0]
    /\ errs = 0
    /\ acked = {}
    /\ sends = 0
    /\ returned = [f \in Names |-> 0]
    /\ claims = [f \in Names |-> 0]
    /\ lost = [a \in Agents |-> {}]

InitTwoSides ==
    /\ BaseIdle
    /\ ExtInit

TickTwoSides ==
    /\ clock < MaxClock
    /\ clock' = clock + 1
    /\ UNCHANGED <<baseVars, parseVars, mail, spc, stodo, scur, produced, replies>>

\* A send script writes <id>.json into the inbox root of side s.  Its id is
\* "<sender>-<second>", the id create_message of the sending side's agent
\* gives a reply: within one inbox a file is named by its second.
produce(s) ==
    /\ produced < MaxProduced
    /\ produced' = produced + 1
    /\ \E file \in ProducedFor(s) :
         mail' = [mail EXCEPT ![s][INBOX_DIR] = Put(@, clock, file)]
    /\ UNCHANGED <<baseVars, parseVars, clock, spc, stodo, scur, replies>>

poll_inbox_side(s) ==
    /\ spc[s] = "sleep"
    /\ stodo' = [stodo EXCEPT ![s] = DOMAIN mail[s][INBOX_DIR]]
    /\ spc' = [spc EXCEPT ![s] = "scan"]
    /\ UNCHANGED <<baseVars, parseVars, clock, mail, scur, produced, replies>>

end_cycle_side(s) ==
    /\ spc[s] = "scan"
    /\ stodo[s] = {}
    /\ spc' = [spc EXCEPT ![s] = "sleep"]
    /\ UNCHANGED <<baseVars, parseVars, clock, mail, stodo, scur, produced, replies>>

\* filepath.rename(processing_path); side s has one agent, the listed file
\* is still there.
claim_side(s) ==
    /\ spc[s] = "scan"
    /\ \E f \in stodo[s] :
         /\ stodo' = [stodo EXCEPT ![s] = @ \ {f}]
         /\ scur' = [scur EXCEPT ![s] = f]
         /\ mail' = [mail EXCEPT ![s] = Rename(@, INBOX_DIR, processing_path, f)]
    /\ spc' = [spc EXCEPT ![s] = "claimed"]
    /\ UNCHANGED <<baseVars, parseVars, clock, produced, replies>>

\* The try block of process_message: decode, validate, reply, resolve.
handle_side(s) ==
    /\ spc[s] = "claimed"
    /\ spc' = [spc EXCEPT ![s] = "scan"]
    /\ scur' = [scur EXCEPT ![s] = 0]
    /\ LET f == scur[s]
           file == mail[s][PROCESSING_DIR][f]
           o == Other(s)
       IN  IF ~IsJson(file.body)
           THEN UNCHANGED <<mail, replies>>
           ELSE IF ~ValidLetter(s, file)
           THEN IF IsJsonObject(file.body)
                THEN /\ mail' = [mail EXCEPT
                                   ![s] = Rename(@, processing_path, malformed_path, f),
                                   ![o][INBOX_DIR] =
                                       Put(@, clock, create_message(s, "error", ErrorOrigin(file.body)))]
                     /\ replies' = replies + 1
                ELSE /\ mail' = [mail EXCEPT ![s] = Rename(@, processing_path, malformed_path, f)]
                     /\ UNCHANGED replies
           ELSE IF AckWanted(file.body)
                THEN /\ mail' = [mail EXCEPT
                                   ![s] = Rename(@, processing_path, unread_path, f),
                                   ![o][INBOX_DIR] =
                                       Put(@, clock, create_message(s, "ack", file.body.id))]
                     /\ replies' = replies + 1
                ELSE /\ mail' = [mail EXCEPT ![s] = Rename(@, processing_path, unread_path, f)]
                     /\ UNCHANGED replies
    /\ UNCHANGED <<baseVars, parseVars, clock, stodo, produced>>

main_side(s) ==
    poll_inbox_side(s) \/ claim_side(s) \/ handle_side(s) \/ end_cycle_side(s)

NextTwoSides ==
    \/ TickTwoSides
    \/ \E s \in Sides : produce(s) \/ main_side(s)

SpecTwoSides ==
    /\ InitTwoSides
    /\ [][NextTwoSides]_vars
    /\ \A s \in Sides : WF_vars(main_side(s))

(***************************************************************************)
(* The text-block decoder, line by line.  A text is the sequence of its    *)
(* lines (content.split('\n')); a string without a newline is some         *)
(* spaces, a core without surrounding whitespace, and some spaces; a line  *)
(* is split at its first colon, if it has one.                             *)
(***************************************************************************)
MaxTail == 4
MaxContentLines == 3

Str(lead, core, trail) == [lead |-> lead, core |-> core, trail |-> trail]
Empty == Str(0, "", 0)
Word(w) == Str(0, w, 0)
Padded(w) == Str(1, w, 1)

\* str.strip / lstrip / rstrip and str.lower (on the header names).
strip(x) == Str(0, x.core, 0)
lstrip(x) == IF x.core = "" THEN Empty ELSE Str(0, x.core, x.trail)
rstrip(x) == IF x.core = "" THEN Empty ELSE Str(x.lead, x.core, 0)
lower(w) ==
    CASE w = "ID" -> "id" [] w = "From" -> "from" [] w = "To" -> "to"
      [] w = "Subject" -> "subject" [] OTHER -> w

\* A line without a colon, and the line f"{key}: {value}".
Plain(x) == [colon |-> FALSE, left |-> x, right |-> Empty]
HeaderLine(key, value) ==
    [colon |-> TRUE, left |-> Word(key), right |-> Str(value.lead + 1, value.core, value.trail)]
BlankLine == Plain(Empty)

\* line.strip() == ''
IsBlank(line) == ~line.colon /\ line.left.core = ""

RECURSIVE DropLeadingBlank(_)
DropLeadingBlank(lines) ==
    IF lines = << >> THEN << >>
    ELSE IF IsBlank(Head(lines)) THEN DropLeadingBlank(Tail(lines)) ELSE lines

RECURSIVE DropTrailingBlank(_)
DropTrailingBlank(lines) ==
    IF lines = << >> THEN << >>
    ELSE IF IsBlank(lines[Len(lines)])
         THEN DropTrailingBlank(SubSeq(lines, 1, Len(lines) - 1))
         ELSE lines

\* '\n'.join(content_lines).strip(): whitespace, newlines included, goes
\* from both ends; the empty string is one empty line.
JoinStrip(lines) ==
    LET kept == DropTrailingBlank(DropLeadingBlank(lines))
        n == Len(kept)
        left(l) == [l EXCEPT !.left = lstrip(@)]
        right(l) == IF l.colon THEN [l EXCEPT !.right = rstrip(@)]
                    ELSE [l EXCEPT !.left = rstrip(@)]
    IN  IF n = 0 THEN <<BlankLine>>
        ELSE [i \in 1..n |->
                 IF i = 1 /\ i = n THEN right(left(kept[i]))
                 ELSE IF i = 1 THEN left(kept[i])
                 ELSE IF i = n THEN right(kept[i])
                 ELSE kept[i]]

None == [ok |-> FALSE, pending |-> FALSE]
Message(id, from, to, t, c) ==
    [ok |-> TRUE, id |-> id, from |-> from, to |-> to, t |-> t, c |-> c]

\* A loop in which header-shaped lines after the blank line still set headers.
RECURSIVE ScanLinesHeadersOn(_, _, _, _)
ScanLinesHeadersOn(lines, headers, content_lines, in_content) ==
    IF lines = << >> THEN [headers |-> headers, content_lines |-> content_lines]
    ELSE LET line == Head(lines)
         IN  IF line.colon
             THEN ScanLinesHeadersOn(Tail(lines),
                                     Put(headers, lower(line.left.core), strip(line.right)),
                                     content_lines, in_content)
             ELSE IF ~in_content
             THEN ScanLinesHeadersOn(Tail(lines), headers, content_lines, IsBlank(line))
             ELSE ScanLinesHeadersOn(Tail(lines), headers, Append(content_lines, line), TRUE)

\* The for loop of parse_email_format over the remaining lines.
RECURSIVE ScanLines(_, _, _, _)
ScanLines(lines, headers, content_lines, in_content) ==
    IF lines = << >> THEN [headers |-> headers, content_lines |-> content_lines]
    ELSE LET line == Head(lines)
         IN  IF ~in_content
             THEN IF IsBlank(line)
                  THEN ScanLines(Tail(lines), headers, content_lines, TRUE)
                  ELSE IF line.colon
                  THEN ScanLines(Tail(lines),
                                 Put(headers, lower(line.left.core), strip(line.right)),
                                 content_lines, FALSE)
                  ELSE ScanLines(Tail(lines), headers, content_lines, FALSE)
             ELSE ScanLines(Tail(lines), headers, Append(content_lines, line), TRUE)

\* parse_email_format on the text of a file.
parse_email_lines(lines) ==
    LET r == ScanLines(lines, << >>, << >>, FALSE)
        h == r.headers
    IN  IF ~({"id", "from", "to", "subject"} \subseteq DOMAIN h) THEN None
        ELSE Message(h["id"], h["from"], h["to"], h["subject"], JoinStrip(r.content_lines))

\* create_email_message: four header lines, an empty line, the content.
create_email_message(m) ==
    <<HeaderLine("ID", m.id), HeaderLine("From", m.from), HeaderLine("To", m.to),
      HeaderLine("Subject", m.t), BlankLine>> \o m.c

\* Sequences over S of length lo..hi.
SeqsOf(S, lo, hi) == UNION {[1..n -> S] : n \in lo..hi}

\* The messages handed to the encoder: non-empty id, sender, recipient and
\* subject; a content of up to MaxContentLines lines, among them empty
\* lines, lines with surrounding spaces and a line of header shape.
ContentLines == {BlankLine, Plain(Word("hello")), Plain(Padded("hello")), HeaderLine("ID", Word("other"))}
Messages ==
    {Message(id, Word("claude"), Word("gemini"), Word("task"), c) :
        id \in {Word("m"), Padded("m")}, c \in SeqsOf(ContentLines, 1, MaxContentLines)}

\* The texts found in files: each header there, there with an empty value,
\* or missing; then up to MaxTail lines, blank ones among them or not.
Optional(key, values) ==
    {<< >>} \cup {<<HeaderLine(key, v)>> : v \in values}
    \cup {<<[colon |-> TRUE, left |-> Word(key), right |-> Empty]>>}
TailLines == {BlankLine, Plain(Word("hello")), HeaderLine("ID", Word("other"))}
Texts ==
    {t \in {i \o f \o o \o u \o rest :
              i \in Optional("ID", {Word("m")}), f \in Optional("From", {Word("claude")}),
              o \in {<<HeaderLine("To", Word("gemini"))>>},
              u \in Optional("Subject", {Word("task")}) \ {<< >>},
              rest \in SeqsOf(TailLines, 0, MaxTail)} : t /= << >>}

\* The JSON objects found in files.
JsonTexts ==
    { Verbose("m", "claude", "gemini", "task"), Verbose("m", Absent, "gemini", "task"),
      Verbose("m", "claude", Absent, "task"), Verbose("m", "claude", "gemini", Absent),
      Verbose("", "claude", "gemini", "task"), Verbose(Absent, "claude", "gemini", "task"),
      Compact("m", "task"), Compact("", "task"), Compact(Absent, "task") }

InitParse ==
    /\ BaseIdle
    /\ interrupts = 0
    /\ TwoIdle
    /\ CkptIdle
    /\ WatchIdle
    /\ FmtIdle
    /\ LastIdle
    /\ parsed = NotYet
    /\ jparsed = NoMessage
    /\ dest = "none"
    /\ \/ sent \in Messages /\ text = << >> /\ jfile = NoMessage
       \/ sent = NotYet /\ text \in Texts /\ jfile = NoMessage
       \/ sent = NotYet /\ text = << >> /\ jfile \in JsonTexts

\* The sender writes create_email_message(...) into a .txt file.
write_email ==
    /\ sent /= NotYet
    /\ text = << >>
    /\ text' = create_email_message(sent)
    /\ UNCHANGED <<baseVars, clock, twoVars, sent, parsed, jfile, jparsed, dest>>

\* parse_message_file on a .txt file calls parse_email_format.
parse_email ==
    /\ text /= << >>
    /\ parsed = NotYet
    /\ parsed' = parse_email_lines(text)
    /\ UNCHANGED <<baseVars, clock, twoVars, sent, text, jfile, jparsed, dest>>

\* parse_message_file on a .json file calls parse_json_format.
parse_json ==
    /\ jfile /= NoMessage
    /\ dest = "none"
    /\ jparsed' = parse_json_format(jfile)
    /\ dest' = "parsed"
    /\ UNCHANGED <<baseVars, clock, twoVars, sent, text, parsed, jfile>>

\* process_message of the archived client on the claimed .txt file: nothing
\* decoded, to .malformed; otherwise to .unread.
resolve_text ==
    /\ parsed /= NotYet
    /\ dest = "none"
    /\ dest' = IF parsed.ok THEN "unread" ELSE "malformed"
    /\ UNCHANGED <<baseVars, clock, twoVars, sent, text, parsed, jfile, jparsed>>

NextParse == write_email \/ parse_email \/ parse_json \/ resolve_text

SpecParse == InitParse /\ [][NextParse]_vars

(***************************************************************************)
(* Properties.                                                             *)
(***************************************************************************)
Where(f) == {d \in Dirs : Has(d, f)}
Exists(f) == Where(f) /= {}

\* An agent is inside process_message, past the rename into .processing.
Holding(a) == pc[a] \in {"claimed", "invalid", "reply_error", "valid", "deliver"}

\* The step is agent a's attempt to claim a candidate.
ClaimAttempt(a) == pc[a] = "scan" /\ todo[a] /= {} /\ pc'[a] /= "scan"

C2_OneFileTwoAgents ==
    BothCyclesComplete =>
        /\ DOMAIN box["root"] = {}
        /\ DOMAIN box["processing"] = {}
        /\ Cardinality(DOMAIN box["unread"]) + Cardinality(DOMAIN box["malformed"]) = 1
        /\ DOMAIN box["unread"] \cap DOMAIN box["malformed"] = {}

\* C3: process_message never enqueues an ack for a message of type ack or
\* error: no such type is ever acknowledged, finishing the ack decision for
\* such a message leaves the outbox as it is, and every ack written to the
\* outbox is written for a message of another type.
C3_NoAckForAck ==
    /\ [](acked \cap {"ack", "error"} = {})
    /\ [][\A a \in Agents :
            pc[a] = "valid" /\ msg[a].t \in {"ack", "error"} /\ pc'[a] /= "valid"
                => outbox' = outbox /\ sends' = sends /\ pc'[a] = "deliver"]_vars
    /\ [][sends' /= sends /\ outbox'[clock].type = "ack"
            => \E a \in Agents : /\ pc[a] = "valid"
                                 /\ msg[a].t \notin {"ack", "error"}
                                 /\ outbox'[clock].orig = OriginalId(msg[a].id)]_vars

\* C3 witness: an ack message was delivered to .unread beside a task message,
\* and the only reply in the outbox is the ack of the task.
C3_AckDeliveredUnacked ==
    /\ \A f \in Names : Has("unread", f)
    /\ \E f \in Names : box["unread"][f].body.t = "ack"
    /\ acked = {"task"}
    /\ sends = 1

\* C4: every claimed file whose content fails decoding or validation (not
\* JSON, JSON that is no object, a schema violation) ends up in .malformed: it
\* is never deleted, never reaches .unread, and once the poll cycles are over
\* it is neither in .processing nor in the inbox root.
\* (Rejected: validate_message fails in mcp_client*, parse_message_file
\* yields nothing in the archived client.)
C4_RejectedEndsMalformed ==
    LET Rejected(file) ==
            IF variant = "archived"
            THEN parse_message_file(file.ext, file.body) = NoMessage
            ELSE ~validate_message(variant, file.body)
    IN  /\ \E d \in Dirs : Has(d, 0)
        /\ \A d \in Dirs : Has(d, 0) /\ Rejected(box[d][0]) =>
              /\ d /= "unread"
              /\ BothCyclesComplete => d = "malformed"

\* C5: every file in .unread, and every message get_new_messages has taken
\* into its result, has id, sender, recipient and subject present and
\* non-empty.
C5_DeliveredComplete ==
    LET Complete(m) == \A v \in {m.id, m.from, m.to, m.t} : v /= Absent /\ v /= ""
    IN  /\ \A f \in DOMAIN box["unread"] : Complete(box["unread"][f].body)
        /\ \A r \in Readers :
              rpc[r] = "move" /\ Has("unread", rcur[r]) =>
                  Complete(ReaderDecode(reader, box["unread"][rcur[r]]))

C7_NoPartialVisible ==
    /\ \A f \in DOMAIN box["root"] : box["root"][f].body /= Partial
    /\ \A f \in DOMAIN box["processing"] : box["processing"][f].body /= Partial

\* C8: ids and file names of the messages one sender creates are distinct,
\* also within one second, so that no enqueue overwrites an entry of the
\* outbox: the outbox holds as many entries as messages were sent to it.
C8_NoOverwrite ==
    Cardinality(DOMAIN outbox) = sends

\* C9: across all read calls, also when the move to .read fails, each message
\* file is returned to a consumer at most once.
C9_AtMostOnce ==
    \A f \in Names : returned[f] <= 1

\* C10: a filesystem error other than source-missing during claim, resolve or
\* markRead leaves every entry where it was (nothing created, nothing lost),
\* and a later poll cycle or read call retries the entry, so that it reaches
\* its target: out of the inbox root after a failed claim, in .unread or
\* .malformed after a failed resolve, in .read after a failed markRead.
\* (markRead concerns the files the reader of the pipeline takes into its
\* result.)
C10_RetryReachesTarget ==
    /\ [][errs' /= errs => box' = box]_vars
    /\ \A f \in Names :
          /\ [](Has("root", f) => <>~Has("root", f))
          /\ [](Has("processing", f) => <>~Has("processing", f))
          /\ [](/\ Has("unread", f)
                /\ ReaderGlob(reader, box["unread"][f].ext)
                /\ ReaderDecode(reader, box["unread"][f]) /= NoMessage
                => <>Has("read", f))

\* C11: when the claim of a candidate fails because another agent already
\* claimed it, poll_inbox treats it as already claimed and goes on with the
\* remaining candidates of the same poll cycle: the lost candidate alone
\* leaves the listing, and the loop is still running while candidates remain.
C11_LostClaimSkipped ==
    [][\A a \in Agents, f \in Names :
          f \in lost'[a] \ lost[a] =>
              /\ todo'[a] = todo[a] \ {f}
              /\ todo'[a] /= {} => pc'[a] = "scan"]_vars

C13_InterruptStrandsNothing ==
    /\ [][interrupts' /= interrupts => box' = box]_vars
    /\ \A f \in Names :
          [](Has("root", f) \/ Has("processing", f)
                => <>(Has("unread", f) \/ Has("malformed", f)))

\* Both inbox roots are empty and no agent is inside process_message.
Quiescent ==
    \A s \in Sides : DOMAIN mail[s]["root"] = {} /\ spc[s] /= "claimed"

\* C14: with both agents polling for ever and the producers sending finitely
\* many messages, only finitely many ack/error messages are enqueued (at most
\* two per produced message) and the system reaches, and stays in, a state
\* in which both inbox roots are empty and nothing more is enqueued.
C14_NoAckStorm ==
    /\ [](replies <= produced + produced)
    /\ <>[]Quiescent
    /\ [][Quiescent /\ produced = MaxProduced => replies' = replies]_vars

\* C14 witness: all messages are sent, replies went both ways (a reply was
\* answered by a reply), and the system is quiescent.
C14_QuietAfterReplies ==
    /\ Quiescent
    /\ produced = MaxProduced
    /\ replies > produced
    /\ \A s \in Sides : spc[s] = "sleep"

\* C15: a compact-schema JSON file {id, to, t, c} as send_to_gemini writes it
\* is, after one poll cycle of the Gemini-side agent (mcp_client_gemini.py or
\* the archived client), in .unread with its content unchanged.
C15_CompactDelivered ==
    \A d \in Dirs :
        /\ variant \in {"mcp_client_gemini", "archived"}
        /\ Has(d, 0)
        /\ box[d][0].body = Compact("m", "task")
        /\ BothCyclesComplete
        => d = "unread"

\* The text has a blank line / each of the four headers before any blank line.
HasBlankLine(lines) == \E i \in 1..Len(lines) : IsBlank(lines[i])
HasHeader(lines, key) ==
    \E i \in 1..Len(lines) : lines[i].colon /\ lower(lines[i].left.core) = key

\* C16: a text-block file with the headers ID, From, To and Subject and no
\* blank line at all is decoded as malformed (parse_email_format returns
\* None) and is moved to .malformed, never to .unread.
C16_NoSeparatorMalformed ==
    /\ text /= << >>
    /\ ~HasBlankLine(text)
    /\ \A key \in {"id", "from", "to", "subject"} : HasHeader(text, key)
    => /\ parsed /= NotYet => parsed = None
       /\ dest /= "unread"

\* C17: round-trip law of the text block: for every message with non-empty
\* id, sender, recipient and subject and any content (empty lines and
\* surrounding whitespace included), parse_email_format of
\* create_email_message(m) has the fields of m.
C17_RoundTrip ==
    sent /= NotYet /\ parsed /= NotYet => parsed = sent

\* The index of the first blank line, the lines before it and after it.
FirstBlank(lines) ==
    CHOOSE i \in 1..Len(lines) : IsBlank(lines[i]) /\ \A j \in 1..(i - 1) : ~IsBlank(lines[j])
HeaderPart(lines) ==
    IF HasBlankLine(lines) THEN SubSeq(lines, 1, FirstBlank(lines) - 1) ELSE lines
ContentPart(lines) ==
    IF HasBlankLine(lines) THEN SubSeq(lines, FirstBlank(lines) + 1, Len(lines)) ELSE << >>

NoValue(lines, key) ==
    ~\E i \in 1..Len(lines) :
        /\ lines[i].colon
        /\ lower(lines[i].left.core) = key
        /\ lines[i].right.core /= ""

\* C19: for both wire formats, an input in which one of id, sender,
\* recipient and subject is missing or empty decodes to nothing:
\* parse_email_format and parse_json_format return None, never a message
\* with a defaulted or absent field.
C19_IncompleteIsNone ==
    /\ /\ parsed /= NotYet
       /\ \E key \in {"id", "from", "to", "subject"} : NoValue(HeaderPart(text), key)
       => parsed = None
    /\ /\ dest = "parsed"
       /\ \E v \in {jfile.id, jfile.from, jfile.to, jfile.t} : v \in {Absent, ""}
       => jparsed = NoMessage

\* C20: a message with well-formed id, sender, recipient and content whose
\* type is a user-defined string outside {task, status_update, query, ack,
\* error} is valid: mcp_client.py and mcp_client_gemini.py alike never move
\* it to .malformed, send no error reply for it, and have it in .unread
\* when the poll cycles are over.
C20_UserTypeDelivered ==
    \A d \in Dirs :
        /\ variant \in {"mcp_client", "mcp_client_gemini"}
        /\ Has(d, 0)
        /\ box[d][0].body.syntax = "json_verbose"
        /\ box[d][0].body.t \notin TypeEnum \cup {Absent}
        /\ \A v \in {box[d][0].body.id, box[d][0].body.from, box[d][0].body.to, box[d][0].body.c} :
              v \notin {Absent, ""}
        => /\ d /= "malformed"
           /\ \A n \in DOMAIN outbox : outbox[n].type /= "error"
           /\ BothCyclesComplete => d = "unread"

\* C21: parse_json_format accepts the compact key set {id, to, t, c} and
\* the verbose key set {message_id, timestamp, sender, recipient, type,
\* payload.content} and returns for each a message of the same shape, with
\* id, from, to, t and c all defined, so that process_message, which reads
\* message['t'], message['from'], message['id'] and message['c'], does not
\* raise.
C21_BothShapesCanonical ==
    /\ dest = "parsed"
    /\ IsJsonObject(jfile)
    /\ \A v \in {jfile.id, jfile.to, jfile.t, jfile.c} : v /= Absent
    /\ jfile.syntax = "json_verbose" => jfile.from /= Absent /\ jfile.ts /= Absent
    => /\ jparsed /= NoMessage
       /\ \A v \in {jparsed.id, jparsed.from, jparsed.to, jparsed.t, jparsed.c} : v /= Absent

(***************************************************************************)
(* One poll cycle per agent over an inbox that holds two complete files,   *)
(* file 0 written in second 0 and file 1 written in second 1: the          *)
(* modification time of each is the second in its name.                    *)
(***************************************************************************)
InitTwoFiles ==
    /\ \E p \in Pipelines : variant = p[1] /\ reader = p[2]
    /\ \E b0, b1 \in BodiesFor(variant) :
         box = [d \in Dirs |-> IF d = INBOX_DIR
                               THEN Put(Put(EmptyDir, 0, File(b0)), 1, File(b1))
                               ELSE EmptyDir]
    /\ outbox = [x \in {} |-> NoMessage]
    /\ clock = 1
    /\ writing = {}
    /\ lastSent = 1
    /\ pc = [a \in Agents |-> "start"]
    /\ todo = [a \in Agents |-> {}]
    /\ cur = [a \in Agents |-> 0]
    /\ msg = [a \in Agents |-> NoMessage]
    /\ rpc = [r \in Readers |-> "idle"]
    /\ rtodo = [r \in Readers |-> {}]
    /\ rcur = [r \in Readers |-> 0]
    /\ errs = MaxFsErrors
    /\ acked = {}
    /\ sends = 0
    /\ returned = [f \in Names |-> 0]
    /\ claims = [f \in Names |-> 0]
    /\ lost = [a \in Agents |-> {}]
    /\ ExtInit

st_mtime(f) == f

SpecTwoFiles == InitTwoFiles /\ [][NextOnePoll]_vars

\* C22: within one poll cycle the agent claims the listed files in
\* ascending modification-time order: when it claims a file, no older file
\* of its listing is still waiting to be visited.
C22_OldestFirst ==
    [][\A a \in Agents :
          pc[a] = "scan" /\ pc'[a] = "claimed"
              => \A g \in todo[a] : st_mtime(g) >= st_mtime(cur'[a])]_vars

(***************************************************************************)
(* Checkpoint mode (ai-bridge-mcp-server, gemini-mcp-server): call_tool    *)
(* reads the checkpoint, returns the outbox files whose st_mtime is        *)
(* greater, and saves the current time.  Two server processes share the    *)
(* checkpoint file .claude-mcp-last-check and the outbox; a sender writes  *)
(* files meanwhile.  Every timestamp is taken from a clock that has moved  *)
(* on since the previous one.                                              *)
(***************************************************************************)
otherVars == <<variant, reader, box, outbox, clock, writing, lastSent, pc, todo, cur, msg,
               rpc, rtodo, rcur, errs, acked, sends, returned, claims, lost, interrupts,
               twoVars, parseVars, fmtVars, lastVars>>

Stamp == IF now < MaxNow THEN now + 1 ELSE now

\* A sender writes one more file into the outbox.
write_outbox_file ==
    /\ now < MaxNow
    /\ \E f \in FileNames \ DOMAIN cfiles :
         cfiles' = Put(cfiles, f, now)
    /\ now' = Stamp
    /\ UNCHANGED <<otherVars, watchVars, ckpt, cprev, cpc, clast, cret>>

\* get_last_check_time: 0 when the file is missing; float('') raises and
\* the bare except falls through to return 0.
get_last_check_time(s) ==
    /\ cpc[s] = "idle"
    /\ clast' = [clast EXCEPT ![s] = IF ckpt.state = "value" THEN ckpt.t ELSE 0]
    /\ cpc' = [cpc EXCEPT ![s] = "scan"]
    /\ UNCHANGED <<otherVars, watchVars, now, cfiles, ckpt, cprev, cret>>

\* get_new_messages: the files with mtime > last_check are returned.
scan_outbox(s) ==
    /\ cpc[s] = "scan"
    /\ cret' = [f \in FileNames |->
                  IF f \in DOMAIN cfiles /\ cfiles[f] > clast[s] /\ cret[f] < 2
                  THEN cret[f] + 1 ELSE cret[f]]
    /\ cpc' = [cpc EXCEPT ![s] = "save"]
    /\ UNCHANGED <<otherVars, watchVars, now, cfiles, ckpt, cprev, clast>>

\* save_check_time: open(check_file, 'w') truncates the file ...
save_open(s) ==
    /\ cpc[s] = "save"
    /\ ckpt' = Checkpoint("empty", 0)
    /\ cprev' = IF ckpt.state = "value" THEN ckpt.t ELSE cprev
    /\ cpc' = [cpc EXCEPT ![s] = "write"]
    /\ UNCHANGED <<otherVars, watchVars, now, cfiles, clast, cret>>

\* ... and f.write(str(datetime.now().timestamp())) fills it on close.
save_write(s) ==
    /\ cpc[s] = "write"
    /\ ckpt' = Checkpoint("value", now)
    /\ now' = Stamp
    /\ cpc' = [cpc EXCEPT ![s] = "idle"]
    /\ UNCHANGED <<otherVars, watchVars, cfiles, cprev, clast, cret>>

call_tool(s) == get_last_check_time(s) \/ scan_outbox(s) \/ save_open(s) \/ save_write(s)

InitCheckpoint ==
    /\ BaseIdle
    /\ ExtInit

NextCheckpoint == write_outbox_file \/ \E s \in Servers : call_tool(s)

SpecCheckpoint ==
    /\ InitCheckpoint
    /\ [][NextCheckpoint]_vars
    /\ \A s \in Servers : WF_vars(call_tool(s))

\* C23: in checkpoint mode, with a sender writing files while read calls
\* run, every file written to the outbox is returned by exactly one read
\* call: none is returned twice and none is missed.
C23_ReturnedExactlyOnce ==
    \A f \in FileNames :
        /\ [](cret[f] <= 1)
        /\ [](f \in DOMAIN cfiles => <>(cret[f] >= 1))

\* C24: a get_last_check_time that runs while a save is under way observes
\* the previous timestamp or the new one (the time the save is about to
\* write), never an empty or partial value.
C24_SaveAtomic ==
    [][\A s \in Servers :
          /\ cpc[s] = "idle" /\ cpc'[s] = "scan"
          /\ \E o \in Servers : cpc[o] = "write"
          => clast'[s] \in {cprev, now}]_vars

\* C25: whenever mcp_client.py / mcp_client_gemini.py routes a claimed file
\* to .malformed it also enqueues exactly one error message whose
\* original_message_id is the id found in the file, or "unknown" when there
\* is none; the file is in .malformed when the error is enqueued.
C25_MalformedGetsError ==
    /\ [](/\ variant \in {"mcp_client", "mcp_client_gemini"}
          /\ BothCyclesComplete
          /\ Has("malformed", 0)
          => /\ sends = 1
             /\ \E n \in DOMAIN outbox :
                   /\ outbox[n].type = "error"
                   /\ outbox[n].orig =
                         (IF IsJsonObject(box["malformed"][0].body)
                             /\ box["malformed"][0].body.syntax = "json_verbose"
                             /\ box["malformed"][0].body.id /= Absent
                          THEN box["malformed"][0].body.id
                          ELSE "unknown"))
    /\ [][\A a \in Agents :
            sends' /= sends /\ pc[a] = "reply_error" /\ pc'[a] /= "reply_error"
                => Has("malformed", cur[a])]_vars

(***************************************************************************)
(* gemini-watcher.py: watch_notifications lists gemini-notifications,      *)
(* calls process_notification for every file not yet in its processed set, *)
(* and sleeps; process_notification asks the external tool for a reply     *)
(* and writes it to gemini-outbox.  No filesystem error.                   *)
(***************************************************************************)
MaxNotifs == 2
NotifNames == 1..MaxNotifs

\* How subprocess.run(['gemini', question], timeout=30) can end.
ToolOutcomes == {"ok", "nonzero", "timeout", "not_found", "other_exception"}

\* A get_gemini_response without the final except clause: a timeout or
\* another exception leaves the function.
get_gemini_response_uncaught(outcome) ==
    CASE outcome = "ok" -> [raised |-> FALSE, text |-> "stdout"]
      [] outcome = "nonzero" -> [raised |-> FALSE, text |-> "Error from Gemini CLI"]
      [] outcome = "not_found" -> [raised |-> FALSE, text |-> "Gemini CLI not found"]
      [] OTHER -> [raised |-> TRUE, text |-> "none"]

\* get_gemini_response: stdout on success, a text naming the failure
\* otherwise.
get_gemini_response(outcome) ==
    CASE outcome = "ok" -> [raised |-> FALSE, text |-> "stdout"]
      [] outcome = "nonzero" -> [raised |-> FALSE, text |-> "Error from Gemini CLI"]
      [] outcome = "not_found" -> [raised |-> FALSE, text |-> "Gemini CLI not found"]
      [] OTHER -> [raised |-> FALSE, text |-> "Error getting Gemini response"]

notWatchVars == <<otherVars, ckptVars>>

\* How many times process_notification was called for n.
Attempts(n) == IF n \in DOMAIN wattempts THEN wattempts[n] ELSE 0

\* Claude's side drops a notification; the message file it names is there
\* or not.
notify ==
    /\ \E n \in NotifNames \ DOMAIN wnotifs, there \in BOOLEAN :
         wnotifs' = Put(wnotifs, n, there)
    /\ UNCHANGED <<notWatchVars, wprocessed, wpc, wtodo, wcur, wresp, wout, woutcome,
                   wsaved, wattempts, wstops>>

\* list(NOTIFICATIONS_DIR.glob("*.json"))
watch_list ==
    /\ wpc = "list"
    /\ wtodo' = DOMAIN wnotifs
    /\ wpc' = "loop"
    /\ UNCHANGED <<notWatchVars, wnotifs, wprocessed, wcur, wresp, wout, woutcome,
                   wsaved, wattempts, wstops>>

\* The for loop: a processed name is skipped, another one is handed to
\* process_notification; after the last one, sleep.
watch_next ==
    /\ wpc = "loop"
    /\ \/ \E n \in wtodo :
            /\ wtodo' = wtodo \ {n}
            /\ IF n \in wprocessed
               THEN UNCHANGED <<wpc, wcur>>
               ELSE wpc' = "open" /\ wcur' = n
       \/ wtodo = {} /\ wpc' = "list" /\ UNCHANGED <<wtodo, wcur>>
    /\ UNCHANGED <<notWatchVars, wnotifs, wprocessed, wresp, wout, woutcome,
                   wsaved, wattempts, wstops>>

\* process_notification up to the call of the tool: return when the message
\* file is not there.
read_message ==
    /\ wpc = "open"
    /\ wpc' = IF wnotifs[wcur] THEN "tool" ELSE "done"
    /\ wattempts' = Put(wattempts, wcur, Attempts(wcur) + 1)
    /\ UNCHANGED <<notWatchVars, wnotifs, wprocessed, wtodo, wcur, wresp, wout, woutcome,
                   wsaved, wstops>>

\* gemini_response = get_gemini_response(claude_message)
run_tool ==
    /\ wpc = "tool"
    /\ \E outcome \in ToolOutcomes :
         /\ wresp' = get_gemini_response(outcome)
         /\ woutcome' = Put(woutcome, wcur, outcome)
    /\ wpc' = "write"
    /\ UNCHANGED <<notWatchVars, wnotifs, wprocessed, wtodo, wcur, wout,
                   wsaved, wattempts, wstops>>

\* The response file is written, unless the call raised: then the except
\* clause of process_notification prints and returns.
write_response ==
    /\ wpc = "write"
    /\ wout' = IF wresp.raised THEN wout ELSE Put(wout, wcur, wresp.text)
    /\ wresp' = NoResponse
    /\ wpc' = "done"
    /\ UNCHANGED <<notWatchVars, wnotifs, wprocessed, wtodo, wcur, woutcome,
                   wsaved, wattempts, wstops>>

process_notification == read_message \/ run_tool \/ write_response

\* processed.add(file_name); save_processed_notifications(processed)
mark_processed ==
    /\ wpc = "done"
    /\ wprocessed' = wprocessed \cup {wcur}
    /\ wsaved' = wprocessed \cup {wcur}
    /\ wcur' = 0
    /\ wpc' = "loop"
    /\ UNCHANGED <<notWatchVars, wnotifs, wtodo, wresp, wout, woutcome, wattempts, wstops>>

watch_notifications == watch_list \/ watch_next \/ process_notification \/ mark_processed

InitWatcher ==
    /\ BaseIdle
    /\ ExtInit

NextWatcher == notify \/ watch_notifications

SpecWatcher == InitWatcher /\ [][NextWatcher]_vars /\ WF_vars(watch_notifications)

\* C26: when the external tool fails (non-zero exit, timeout, command not
\* found, any other exception) get_gemini_response returns a placeholder
\* text and does not raise, process_notification still writes a response
\* file to gemini-outbox, and the watch loop goes on: every notification is
\* eventually processed.
C26_ToolFailureNotFatal ==
    /\ [](~wresp.raised)
    /\ [](\A n \in DOMAIN woutcome :
            n \in wprocessed /\ woutcome[n] /= "ok"
                => /\ n \in DOMAIN wout
                   /\ wout[n] \in {"Error from Gemini CLI", "Gemini CLI not found",
                                   "Error getting Gemini response"})
    /\ \A n \in NotifNames : [](n \in DOMAIN wnotifs => <>(n \in wprocessed))

\* C26 witness: the tool timed out for one notification and was not found
\* for the next; both have their response file and the watcher is listing
\* again.
C26_TwoFailuresAnswered ==
    /\ wprocessed = NotifNames
    /\ DOMAIN woutcome = NotifNames
    /\ woutcome[1] = "timeout"
    /\ woutcome[2] = "not_found"
    /\ DOMAIN wout = NotifNames
    /\ wpc = "list"

(***************************************************************************)
(* format_messages.  A content is some leading whitespace, a stripped part *)
(* of a given length, and some trailing whitespace; what is rendered of it *)
(* is a prefix of the stripped part, with or without the truncation        *)
(* marker.                                                                 *)
(***************************************************************************)
ServerBudget == 1000
MailboxBudget == 500
MaxMessages == 3

Content(lead, length, trail) == [lead |-> lead, length |-> length, trail |-> trail]

\* Truncation as soon as the budget is reached.
RenderEager(content, budget) ==
    IF content.length >= budget
    THEN [shown |-> budget, marker |-> TRUE]
    ELSE [shown |-> content.length, marker |-> FALSE]

\* content = msg['content'].strip(); if len(content) > budget:
\*     content = content[:budget] + "\n\n... (truncated)"
Render(content, budget) ==
    IF content.length > budget
    THEN [shown |-> budget, marker |-> TRUE]
    ELSE [shown |-> content.length, marker |-> FALSE]

\* format_messages: nothing for an empty list; else the header with the
\* count and one block per message, enumerate(messages, 1).
format_messages(messages, budget) ==
    IF messages = << >> THEN [ok |-> FALSE, pending |-> FALSE]
    ELSE [ok |-> TRUE,
          count |-> Len(messages),
          blocks |-> [i \in 1..Len(messages) |->
                         [index |-> i, total |-> Len(messages), id |-> messages[i].id,
                          content |-> Render(messages[i].content, budget)]]]

\* The lists handed to format_messages: up to MaxMessages messages, with
\* contents around the budget, with and without surrounding whitespace.
FmtMessages(budget) ==
    {[id |-> id, content |-> Content(lead, length, lead)] :
        id \in {"a", "b"}, lead \in {0, 1}, length \in {0, budget, budget + 1}}

notFmtVars == <<variant, reader, box, outbox, clock, writing, lastSent, pc, todo, cur, msg,
                rpc, rtodo, rcur, errs, acked, sends, returned, claims, lost, interrupts,
                twoVars, parseVars, ckptVars, watchVars, lastVars>>

InitFormat ==
    /\ BaseIdle
    /\ interrupts = 0
    /\ TwoIdle
    /\ ParseIdle
    /\ CkptIdle
    /\ WatchIdle
    /\ LastIdle
    /\ fbudget \in {ServerBudget, MailboxBudget}
    /\ fmsgs \in SeqsOf(FmtMessages(fbudget), 0, MaxMessages)
    /\ fout = NotYet

format ==
    /\ fout = NotYet
    /\ fout' = format_messages(fmsgs, fbudget)
    /\ UNCHANGED <<notFmtVars, fmsgs, fbudget>>

SpecFormat == InitFormat /\ [][format]_vars

NextPolling == \E a \in Agents : first_poll(a) \/ main(a)

SpecPolling ==
    /\ InitTwoFiles
    /\ [][NextPolling]_vars
    /\ \A a \in Agents : WF_vars(first_poll(a) \/ main(a))

\* The file holds a valid message: validate_message accepts it
\* (mcp_client*), parse_message_file decodes it (archived client).
ValidFile(file) ==
    IF variant = "archived"
    THEN parse_message_file(file.ext, file.body) /= NoMessage
    ELSE validate_message(variant, file.body)

\* C28: under weak fairness of the poll loop, with no filesystem error and
\* no interrupt, every file in the inbox root that holds a valid message is
\* eventually in .unread, and every file that enters .processing eventually
\* leaves it.
C28_ValidDeliveredAndProcessingDrains ==
    \A f \in Names :
        /\ [](Has("root", f) /\ ValidFile(box["root"][f]) => <>Has("unread", f))
        /\ [](Has("processing", f) => <>~Has("processing", f))

\* C29: poll_inbox lists and claims only files that are in the inbox root:
\* a listing holds root entries only, a claim takes its file out of the
\* root and touches no other directory than .processing, and no name is
\* claimed twice, so a file in .processing, .unread, .read or .malformed is
\* never processed again.
C29_RootOnly ==
    /\ [][\A a \in Agents :
            pc[a] \in {"start", "sleep"} /\ pc'[a] = "scan"
                => todo'[a] \subseteq DOMAIN box["root"]]_vars
    /\ [][\A a \in Agents :
            pc[a] = "scan" /\ pc'[a] = "claimed"
                => /\ Has("root", cur'[a])
                   /\ \A d \in Dirs \ {"root", "processing"} : box'[d] = box[d]]_vars
    /\ [](\A f \in Names : claims[f] <= 1)

\* C29 witness: file 0 was delivered to .unread or .malformed and is in no
\* listing, while an agent has claimed file 1 from the root; each was
\* claimed once.
C29_DeliveredNotRelisted ==
    /\ Has("unread", 0) \/ Has("malformed", 0)
    /\ \A a \in Agents : 0 \notin todo[a]
    /\ \E a \in Agents : pc[a] = "claimed" /\ cur[a] = 1 /\ Has("processing", 1)
    /\ \E a \in Agents : pc[a] = "sleep"
    /\ claims[0] = 1 /\ claims[1] = 1

\* C30: the reader and the Delivery Agent keep to their own directories: a
\* step of get_new_messages changes the mailbox only by moving one file from
\* .unread to .read, leaving the root, .processing and .malformed as they
\* were, and no step of an agent changes .read.
C30_ReaderAndAgentFrames ==
    /\ [][<<rpc, rtodo, rcur>>' /= <<rpc, rtodo, rcur>>
            => /\ box'["root"] = box["root"]
               /\ box'["processing"] = box["processing"]
               /\ box'["malformed"] = box["malformed"]
               /\ \/ box' = box
                  \/ \E f \in DOMAIN box["unread"] :
                        box' = Rename(box, "unread", "read", f)]_vars
    /\ [][agentVars' /= agentVars => box'["read"] = box["read"]]_vars

\* C30 witness: the reader has moved one file to .read and is inside a call
\* while an agent holds another file in .processing.
C30_ReadWhileProcessing ==
    \E f, g \in Names :
        /\ Where(f) = {"read"}
        /\ Where(g) = {"processing"}
        /\ rpc["r1"] = "scan"
        /\ \E a \in Agents : pc[a] = "claimed" /\ cur[a] = g

(***************************************************************************)
(* The order of the messages a read returns.  The directory is the         *)
(* sequence of its files in the order glob yields them (any order); a file *)
(* has its st_mtime and either decodes to a message or does not.           *)
(***************************************************************************)
MaxListed == 3
MaxMtime == 2

notLastVars == <<variant, reader, box, outbox, clock, writing, lastSent, pc, todo, cur, msg,
                 rpc, rtodo, rcur, errs, acked, sends, returned, claims, lost, interrupts,
                 twoVars, parseVars, ckptVars, watchVars, fmtVars>>

Listed(file, time, ok) == [file |-> file, time |-> time, ok |-> ok]
Listings ==
    UNION {{[i \in 1..n |-> Listed(i, t[i], o[i])] :
               t \in [1..n -> 0..MaxMtime], o \in [1..n -> BOOLEAN]} : n \in 0..MaxListed}

\* The list in the order glob gave it.
unsorted(seq) == seq

\* sorted(..., key=st_mtime) and list.sort(key=time): a stable sort by the
\* key, here by insertion from the left.
RECURSIVE insert(_, _)
insert(seq, x) ==
    IF seq = << >> THEN <<x>>
    ELSE IF x.time < Head(seq).time THEN <<x>> \o seq
    ELSE <<Head(seq)>> \o insert(Tail(seq), x)

RECURSIVE sort_prefix(_, _)
sort_prefix(seq, n) == IF n = 0 THEN << >> ELSE insert(sort_prefix(seq, n - 1), seq[n])

sorted(seq) == sort_prefix(seq, Len(seq))

Decodes(x) == x.ok
Newer(x) == x.time > slast

\* get_new_messages of the servers and of check_claude_messages.py over
\* .unread: the files sorted by st_mtime, each one that decodes appended in
\* that order.
get_new_messages_unread(dir) == SelectSeq(sorted(dir), Decodes)

\* get_new_messages of checkpoint mode: every file newer than last_check
\* appended in glob order, the list sorted by time at the end.
get_new_messages_since(dir) == sorted(SelectSeq(dir, Newer))

InitOrder ==
    /\ BaseIdle
    /\ interrupts = 0
    /\ TwoIdle
    /\ ParseIdle
    /\ CkptIdle
    /\ WatchIdle
    /\ FmtIdle
    /\ DecIdle
    /\ SendIdle
    /\ CwIdle
    /\ sdir \in Listings
    /\ \/ smode = "unread" /\ slast = 0
       \/ smode = "checkpoint" /\ slast \in 0..MaxMtime
    /\ sret = NotYet

read_unread ==
    /\ smode = "unread"
    /\ sret = NotYet
    /\ sret' = [ok |-> TRUE, msgs |-> get_new_messages_unread(sdir)]
    /\ UNCHANGED <<notLastVars, decVars, sendVars, cwVars, smode, sdir, slast>>

read_since ==
    /\ smode = "checkpoint"
    /\ sret = NotYet
    /\ sret' = [ok |-> TRUE, msgs |-> get_new_messages_since(sdir)]
    /\ UNCHANGED <<notLastVars, decVars, sendVars, cwVars, smode, sdir, slast>>

NextOrder == read_unread \/ read_since

SpecOrder == InitOrder /\ [][NextOrder]_vars

\* C31: a read returns its messages oldest first: the reader's
\* get_new_messages returns the decodable files of .unread, the
\* checkpoint-mode one the files newer than last_check, each in ascending
\* modification-time order.
C31_ReturnedOldestFirst ==
    sret /= NotYet =>
        /\ \A i, j \in 1..Len(sret.msgs) : i < j => sret.msgs[i].time <= sret.msgs[j].time
        /\ {sret.msgs[i] : i \in 1..Len(sret.msgs)} =
              {sdir[i] : i \in {k \in 1..Len(sdir) :
                  IF smode = "unread" THEN sdir[k].ok ELSE sdir[k].time > slast}}
        /\ Len(sret.msgs) = Cardinality({sret.msgs[i] : i \in 1..Len(sret.msgs)})

\* C31 witness: glob yielded three files newest first, and the read
\* returned all three, the oldest at the head.
C31_ReversedListing ==
    /\ sret /= NotYet
    /\ Len(sdir) = 3
    /\ sdir[1].time > sdir[2].time /\ sdir[2].time > sdir[3].time
    /\ Len(sret.msgs) = 3
    /\ sret.msgs[1] = sdir[3]

(***************************************************************************)
(* parse_message_file over every extension, those that name no format      *)
(* among them.                                                             *)
(***************************************************************************)
Extensions == {"txt", "json", "md", ""}

\* The contents of a file: the producers' bodies, a file still being
\* written, and objects and text blocks that lack their id.
FileBodies ==
    Bodies \cup { Partial, Verbose(Absent, "gemini", "claude", "task"),
                  Compact(Absent, "task"), Email(Absent, "claude", "gemini", "task") }

InitDecode ==
    /\ BaseIdle
    /\ interrupts = 0
    /\ TwoIdle
    /\ ParseIdle
    /\ CkptIdle
    /\ WatchIdle
    /\ FmtIdle
    /\ SortIdle
    /\ SendIdle
    /\ CwIdle
    /\ pfile \in {[ext |-> e, body |-> b] : e \in Extensions, b \in FileBodies}
    /\ pout = NotYet

parse_file ==
    /\ pout = NotYet
    /\ pout' = parse_message_file(pfile.ext, pfile.body)
    /\ UNCHANGED <<notLastVars, sortVars, sendVars, cwVars, pfile>>

SpecDecode == InitDecode /\ [][parse_file]_vars

\* C32: when the extension names no format, parse_message_file gives what
\* the JSON decoder gives if that succeeds, else what the text-block decoder
\* gives, and None when both fail; for every extension the result is that
\* of the one decoder that accepts the content.
C32_JsonThenText ==
    pout /= NotYet =>
        /\ pfile.ext \notin {"txt", "json"} =>
              pout = IF parse_json_format(pfile.body) /= NoMessage
                     THEN parse_json_format(pfile.body)
                     ELSE parse_email_format(pfile.body)
        /\ parse_json_format(pfile.body) = NoMessage /\ parse_email_format(pfile.body) = NoMessage
              => pout = NoMessage
        /\ parse_json_format(pfile.body) /= NoMessage => pout = parse_json_format(pfile.body)
        /\ parse_email_format(pfile.body) /= NoMessage => pout = parse_email_format(pfile.body)

\* C32 witness: a text block in a file whose extension names no format was
\* decoded at the second attempt, after the JSON decoder refused it.
C32_TextBlockSecond ==
    /\ pout /= NotYet
    /\ pfile.ext = "md"
    /\ parse_json_format(pfile.body) = NoMessage
    /\ pout /= NoMessage
    /\ pout = parse_email_format(pfile.body)

(***************************************************************************)
(* send_to_gemini of the email-format sender: one call, with claude-outbox *)
(* empty or holding the file of an earlier call.                           *)
(***************************************************************************)
MaxStdinLines == 2

Spaces == Plain(Str(1, "", 0))
StdinLines == {BlankLine, Spaces, Plain(Word("hello")), Plain(Padded("hello"))}

\* not content: the empty string only.
IsEmptyString(content) == content = <<BlankLine>>

\* not content.strip(): nothing but whitespace and newlines.
IsEmptyContent(content) == \A i \in 1..Len(content) : IsBlank(content[i])

\* message_id = f"claude-{timestamp}" for the second of the call.
MessageId(t) == IF t = 0 THEN Word("claude-0") ELSE Word("claude-1")

EarlierFile == create_email_message(Message(MessageId(0), Word("claude"), Word("gemini"),
                                            Word("task"), <<Plain(Word("hello"))>>))

InitSend ==
    /\ BaseIdle
    /\ interrupts = 0
    /\ TwoIdle
    /\ ParseIdle
    /\ CkptIdle
    /\ WatchIdle
    /\ FmtIdle
    /\ SortIdle
    /\ DecIdle
    /\ CwIdle
    /\ gcontent \in SeqsOf(StdinLines, 1, MaxStdinLines)
    /\ gnow \in {0, 1}
    /\ goutbox \in {<< >>, [n \in {0} |-> EarlierFile]}
    /\ gresult = "none"

send_to_gemini ==
    /\ gresult = "none"
    /\ IF IsEmptyContent(gcontent)
       THEN /\ gresult' = "ValueError"
            /\ UNCHANGED goutbox
       ELSE /\ goutbox' = Put(goutbox, gnow,
                              create_email_message(Message(MessageId(gnow), Word("claude"),
                                                           Word("gemini"), Word("task"), gcontent)))
            /\ gresult' = "sent"
    /\ UNCHANGED <<notLastVars, sortVars, decVars, cwVars, gcontent, gnow>>

SpecSend == InitSend /\ [][send_to_gemini]_vars

\* C33: send_to_gemini called with empty or whitespace-only content raises
\* ValueError and leaves claude-outbox as it was: no file is created or
\* modified.
C33_EmptyContentRefused ==
    [][gresult' /= gresult /\ (\A i \in 1..Len(gcontent) : IsBlank(gcontent[i]))
          => gresult' = "ValueError" /\ goutbox' = goutbox]_vars

\* C33 witness: a call with spaces and a newline as its content has raised
\* while the outbox holds the file of an earlier call.
C33_WhitespaceRaised ==
    /\ gresult = "ValueError"
    /\ gcontent = <<Spaces, BlankLine>>
    /\ goutbox = [n \in {0} |-> EarlierFile]
    /\ gnow = 0

\* C34: in mcp_client.py / mcp_client_gemini.py the ack is in the outbox
\* before the message reaches .unread, and ack and error exclude each other:
\* a message in .unread whose type is not ack or error has an ack carrying
\* its id as original_message_id, and no ack was enqueued for a message in
\* .malformed.
C34_AckBeforeUnread ==
    variant \in {"mcp_client", "mcp_client_gemini"} =>
        /\ \A f \in DOMAIN box["unread"] :
              box["unread"][f].body.t \notin {"ack", "error"}
                  => \E n \in DOMAIN outbox :
                        outbox[n] = Reply("ack", box["unread"][f].body.id)
        /\ \A f \in DOMAIN box["malformed"] :
              \A n \in DOMAIN outbox : outbox[n].type /= "ack"

\* C35: a step of process_message changes the inbox mailbox only in where
\* the one claimed file is, with its content as it was, and changes the
\* outbox only by adding at most one new file: every other inbox entry and
\* every outbox entry that was there stays as it is.
C35_ProcessFrame ==
    [][agentVars' /= agentVars =>
          /\ \E f \in Names :
                /\ \A g \in Names \ {f} : \A d \in Dirs :
                      /\ Has(d, g)' <=> Has(d, g)
                      /\ Has(d, g) => box'[d][g] = box[d][g]
                /\ \A d, e \in Dirs :
                      Has(d, f) /\ Has(e, f)' => box'[e][f] = box[d][f]
                /\ Cardinality(Where(f)') = Cardinality(Where(f))
          /\ \A n \in DOMAIN outbox : n \in DOMAIN outbox' /\ outbox'[n] = outbox[n]
          /\ Cardinality(DOMAIN outbox') <= Cardinality(DOMAIN outbox) + 1]_vars

(***************************************************************************)
(* claude-watcher.py: watch_outbox over gemini-outbox, stopped by          *)
(* KeyboardInterrupt and started again.                                    *)
(*   load     before load_processed_messages                               *)
(*   list     before sorted(OUTBOX_DIR.glob("*.txt")), after the sleep      *)
(*   loop     in the for loop, before the next file                        *)
(*   display  before display_message                                       *)
(*   add      display_message has returned, before processed.add           *)
(*   save     before save_processed_messages                               *)
(*   stopped  the process has ended                                        *)
(***************************************************************************)
MaxOutboxFiles == 2
MaxStops == 1
OutboxFiles == 1..MaxOutboxFiles

Shown(f) == IF f \in DOMAIN cwshown THEN cwshown[f] ELSE 0

\* Gemini's side writes a message file into gemini-outbox.
write_outbox_message ==
    /\ \E f \in OutboxFiles \ cwfiles : cwfiles' = cwfiles \cup {f}
    /\ UNCHANGED <<notLastVars, sortVars, decVars, sendVars,
                   cwprocessed, cwsaved, cwpc, cwtodo, cwcur, cwshown, cwstops>>

\* processed = load_processed_messages()
load_processed_messages ==
    /\ cwpc = "load"
    /\ cwprocessed' = cwsaved
    /\ cwpc' = "list"
    /\ UNCHANGED <<notLastVars, sortVars, decVars, sendVars,
                   cwfiles, cwsaved, cwtodo, cwcur, cwshown, cwstops>>

\* message_files = sorted(OUTBOX_DIR.glob("*.txt"))
watch_outbox_list ==
    /\ cwpc = "list"
    /\ cwtodo' = cwfiles
    /\ cwpc' = "loop"
    /\ UNCHANGED <<notLastVars, sortVars, decVars, sendVars,
                   cwfiles, cwprocessed, cwsaved, cwcur, cwshown, cwstops>>

\* The for loop, in name order: a processed name is skipped; after the last
\* file, sleep.
watch_outbox_next ==
    /\ cwpc = "loop"
    /\ IF cwtodo = {}
       THEN cwpc' = "list" /\ UNCHANGED <<cwtodo, cwcur>>
       ELSE LET f == CHOOSE x \in cwtodo : \A y \in cwtodo : x <= y
            IN  /\ cwtodo' = cwtodo \ {f}
                /\ IF f \in cwprocessed
                   THEN UNCHANGED <<cwpc, cwcur>>
                   ELSE cwpc' = "display" /\ cwcur' = f
    /\ UNCHANGED <<notLastVars, sortVars, decVars, sendVars,
                   cwfiles, cwprocessed, cwsaved, cwshown, cwstops>>

\* display_message: the message is printed and appended to
\* conversation-history.txt.
display_message ==
    /\ cwpc = "display"
    /\ cwshown' = Put(cwshown, cwcur, Shown(cwcur) + 1)
    /\ cwpc' = "add"
    /\ UNCHANGED <<notLastVars, sortVars, decVars, sendVars,
                   cwfiles, cwprocessed, cwsaved, cwtodo, cwcur, cwstops>>

\* processed.add(file_name)
processed_add ==
    /\ cwpc = "add"
    /\ cwprocessed' = cwprocessed \cup {cwcur}
    /\ cwpc' = "save"
    /\ UNCHANGED <<notLastVars, sortVars, decVars, sendVars,
                   cwfiles, cwsaved, cwtodo, cwcur, cwshown, cwstops>>

\* save_processed_messages(processed)
save_processed_messages ==
    /\ cwpc = "save"
    /\ cwsaved' = cwprocessed
    /\ cwcur' = 0
    /\ cwpc' = "loop"
    /\ UNCHANGED <<notLastVars, sortVars, decVars, sendVars,
                   cwfiles, cwprocessed, cwtodo, cwshown, cwstops>>

\* except KeyboardInterrupt, anywhere inside the try: the set as it is in
\* memory is saved and the process ends.
watch_outbox_interrupt ==
    /\ cwpc \in {"list", "loop", "display", "add", "save"}
    /\ cwstops < MaxStops
    /\ cwstops' = cwstops + 1
    /\ cwsaved' = cwprocessed
    /\ cwpc' = "stopped"
    /\ cwtodo' = {}
    /\ cwcur' = 0
    /\ UNCHANGED <<notLastVars, sortVars, decVars, sendVars, cwfiles, cwprocessed, cwshown>>

\* The watcher is started again.
watch_outbox_start ==
    /\ cwpc = "stopped"
    /\ cwpc' = "load"
    /\ cwprocessed' = {}
    /\ UNCHANGED <<notLastVars, sortVars, decVars, sendVars,
                   cwfiles, cwsaved, cwtodo, cwcur, cwshown, cwstops>>

watch_outbox ==
    \/ load_processed_messages
    \/ watch_outbox_list
    \/ watch_outbox_next
    \/ display_message
    \/ processed_add
    \/ save_processed_messages

InitDisplay ==
    /\ BaseIdle
    /\ ExtInit

NextDisplay ==
    \/ write_outbox_message
    \/ watch_outbox
    \/ watch_outbox_interrupt
    \/ watch_outbox_start

SpecDisplay == InitDisplay /\ [][NextDisplay]_vars

\* C36: each message file of gemini-outbox is displayed, and appended to the
\* conversation history, at most once over the watcher's lifetime, also
\* when the watcher is interrupted at any point and started again.
C36_DisplayedOnce ==
    \A f \in OutboxFiles : Shown(f) <= 1

(***************************************************************************)
(* gemini-watcher.py stopped by KeyboardInterrupt and started again.       *)
(***************************************************************************)
\* except KeyboardInterrupt, anywhere inside the try of watch_notifications:
\* the set as it is in memory is saved and the process ends.
watch_notifications_interrupt ==
    /\ wpc \in {"list", "loop", "open", "tool", "write", "done"}
    /\ wstops < MaxStops
    /\ wstops' = wstops + 1
    /\ wsaved' = wprocessed
    /\ wpc' = "stopped"
    /\ wtodo' = {}
    /\ wcur' = 0
    /\ wresp' = NoResponse
    /\ UNCHANGED <<notWatchVars, wnotifs, wprocessed, wout, woutcome, wattempts>>

\* The watcher is started again: processed = load_processed_notifications().
watch_notifications_start ==
    /\ wpc = "stopped"
    /\ wprocessed' = wsaved
    /\ wpc' = "list"
    /\ UNCHANGED <<notWatchVars, wnotifs, wtodo, wcur, wresp, wout, woutcome,
                   wsaved, wattempts, wstops>>

NextRestart ==
    \/ notify
    \/ watch_notifications
    \/ watch_notifications_interrupt
    \/ watch_notifications_start

SpecRestart == InitWatcher /\ [][NextRestart]_vars

\* C37: each notification file is passed to process_notification at most
\* once: after the first attempt, with or without a response file, it is
\* not attempted again in a later cycle or after a restart.
C37_AttemptedOnce ==
    \A n \in NotifNames : Attempts(n) <= 1

====
